---- MODULE Spec2Model ----
(***************************************************************************)
(* A model of the redgold node core: the Relay message hub                 *)
(* (src/src/core/relay.rs), the peer request/response dispatcher           *)
(* (src/src/core/peer_rx_event_handler.rs) and the DepositWatcher          *)
(* (src/src/multiparty/watcher.rs).                                        *)
(*                                                                         *)
(* Option<T> is a sequence of length 0 (None) or 1 (Some).  Result<T, E>   *)
(* is a record [ok, val, err].  Time is counted in seconds.                *)
(***************************************************************************)
EXTENDS Integers, Sequences, FiniteSets, TLC

(***************************************************************************)
(* Bounds of the model                                                     *)
(***************************************************************************)
\* number of concurrent send_message_sync callers
NumCalls == 2
\* seconds by which one step of the clock advances
TickSecs == 30
\* an explicit timeout a caller may pass instead of None
ShortTimeoutSecs == 30

(***************************************************************************)
(* Program constants                                                       *)
(***************************************************************************)
\* relay.rs:124 timeout.unwrap_or(Duration::from_secs(60))
DefaultTimeoutSecs == 60
\* relay.rs:181 timeout.unwrap_or(Duration::from_secs(20))
BroadcastTimeoutSecs == 20

(***************************************************************************)
(* Option and Result                                                       *)
(***************************************************************************)
None == <<>>
Some(x) == <<x>>
IsSome(o) == o # <<>>
Get(o) == o[1]
UnwrapOr(o, d) == IF IsSome(o) THEN Get(o) ELSE d

Ok(v) == [ok |-> TRUE, val |-> <<v>>, err |-> ""]
Err(e) == [ok |-> FALSE, val |-> <<>>, err |-> e]
NoResult == [ok |-> FALSE, val |-> <<>>, err |-> "pending"]

(***************************************************************************)
(* Public keys.  The structs::PublicKey values in Nodes convert to a      *)
(* secp256k1 key; BadKey is a structs::PublicKey whose bytes do not.       *)
(***************************************************************************)
BadKey == "bad"
Nodes == {"pkA", "pkB"}
StructKeys == Nodes \cup {BadKey}
\* node.to_public_key(): Result<PublicKey, ErrorInfo>
ToPublicKey(node) == IF node \in Nodes THEN Ok(node) ELSE Err("key")

(***************************************************************************)
(* Requests and responses (schema structs::Request / structs::Response):   *)
(* every sub-request and sub-response is an independent optional field.    *)
(***************************************************************************)
EmptyRequest ==
    [ proof |-> None, node_metadata |-> None,
      hash_search_request |-> None, submit_transaction_request |-> None,
      get_peers_info_request |-> None, gossip_transaction_request |-> None,
      gossip_observation_request |-> None, download_request |-> None,
      about_node_request |-> None, multiparty_threshold_request |-> None ]

\* Response::empty_success()
EmptyResponse ==
    [ error |-> None, response_metadata |-> None, node_metadata |-> None,
      proof |-> None, hash_search_response |-> None,
      submit_transaction_response |-> None, get_peers_info_response |-> None,
      download_response |-> None, about_node_response |-> None ]

\* Response::from_error_info(e): a Response holding only the error
FromErrorInfo(e) == [EmptyResponse EXCEPT !.error = Some(e)]

\* node_config.request().about()
AboutRequest == [EmptyRequest EXCEPT !.about_node_request = Some("about")]
\* Request::default() with get_peers_info_request set (discovery.rs:49-50)
PeersRequest == [EmptyRequest EXCEPT !.get_peers_info_request = Some("peers")]
OutboundRequests == {AboutRequest, PeersRequest}

(***************************************************************************)
(* State                                                                   *)
(***************************************************************************)
VARIABLES
    calls,            \* the relay calls in progress, by caller
    chans,            \* every flume channel created for a reply, by id
    peer_message_tx,  \* Relay.peer_message_tx: outbound PeerMessage queue
    peer_message_rx,  \* Relay.peer_message_rx: inbound PeerMessage queue
    transaction,      \* Relay.transaction: TransactionMessage queue
    txLog,            \* every PeerMessage ever pushed on peer_message_tx
    rxLog,            \* every PeerMessage ever pushed on peer_message_rx
    tmLog,            \* every TransactionMessage ever pushed on transaction
    bcast,            \* the Relay::broadcast call in progress
    handlers,         \* the request_response_rest futures of the dispatcher
    rxLoop,           \* PeerRxEventHandler::run: "running" or "stopped"
    peer_store,       \* relay.ds.peer_store: public keys of the known peers
    last_seen,        \* peers whose last-seen time was updated
    about_tasks,      \* spawned about-node queries not yet answered
    discovery,        \* the last Discovery tick: its peers and their answers
    observation,      \* the ObservationHandler, its queue, store and subscribers
    wallet,           \* the SingleKeyBitcoinWallet behind the Arc<Mutex<..>>
    fulfill,          \* the invocations of fulfill_btc_bids
    btc_chain,        \* the transactions the Bitcoin network accepted
    ledger,           \* the transactions the RDG ledger accepted
    events,           \* external BTC deposits and RDG withdrawal orders
    now,              \* current time, in seconds
    config,           \* the stored record deposit_watcher_config
    watcher,          \* the DepositWatcher tick in progress
    node_config,      \* relay.node_config: the seeds and is_local_debug
    bid_ask,          \* the BidAsk a caller of the curve engine holds
    curve_op,         \* the last call into the curve engine and its result
    curve_changes     \* how often the caller replaced its BidAsk since it made it

relayVars == <<calls, chans, peer_message_tx, peer_message_rx, transaction,
               txLog, rxLog, tmLog, bcast>>

dispatchVars == <<handlers, rxLoop, peer_store, last_seen, about_tasks,
                  discovery, observation>>

walletVars == <<wallet, fulfill, btc_chain>>
watcherVars == <<ledger, events, now, config, watcher, node_config>>
curveVars == <<bid_ask, curve_op, curve_changes>>
partyVars == <<walletVars, watcherVars, curveVars>>

vars == <<relayVars, dispatchVars, partyVars>>

CallIds == 1..NumCalls

\* a flume channel: its queue, whether the receiver and the sender are alive
\* and everything ever sent on it
NewChan == [q |-> <<>>, rx |-> TRUE, tx |-> TRUE, sent |-> <<>>]

IdleCall ==
    [ kind |-> "none", pc |-> "idle", request |-> EmptyRequest, node |-> BadKey,
      asked |-> None, timeout |-> 0, elapsed |-> 0, chan |-> None,
      result |-> NoResult ]

\* Sender::send_err: the message is queued unless the receiver is gone
ChanSend(chs, id, msg) ==
    IF chs[id].rx
    THEN [chs EXCEPT ![id].q = Append(@, msg), ![id].sent = Append(@, msg)]
    ELSE chs
\* dropping the last Sender of a channel
ChanDropTx(chs, id) == [chs EXCEPT ![id].tx = FALSE]
\* dropping the Receiver of a channel
ChanDropRx(chs, id) == [chs EXCEPT ![id].rx = FALSE, ![id].q = <<>>]

(***************************************************************************)
(* Relay::send_message_sync (relay.rs:123-137)                             *)
(***************************************************************************)
\* the PeerMessage of a synchronous send: it carries the reply sender
SyncPeerMessageNoReply(request, key, ch) ==
    [ request |-> request, response |-> None,
      public_key |-> Some(key), socket_addr |-> None ]
SyncPeerMessage(request, key, ch) ==
    [ request |-> request, response |-> Some(ch),
      public_key |-> Some(key), socket_addr |-> None ]

\* a default copied from broadcast: 20 s instead of 60 s
SendTimeoutAsBroadcast(timeoutOpt) == UnwrapOr(timeoutOpt, BroadcastTimeoutSecs)
\* timeout.unwrap_or(Duration::from_secs(60))
SendTimeout(timeoutOpt) == UnwrapOr(timeoutOpt, DefaultTimeoutSecs)

\* lines 124-133: create the reply channel, convert the key, enqueue; the
\* conversion's ? returns before anything is queued
SyncEnqueue(c, kind, request, node, timeoutOpt, timeoutSecs) ==
    LET ch  == Len(chans) + 1
        key == ToPublicKey(node)
        me  == [ kind |-> kind, pc |-> "await", request |-> request,
                 node |-> node, asked |-> timeoutOpt, timeout |-> timeoutSecs,
                 elapsed |-> 0, chan |-> Some(ch), result |-> NoResult ]
    IN  IF key.ok
        THEN LET pm == SyncPeerMessage(request, Get(key.val), ch)
             IN  /\ chans' = Append(chans, NewChan)
                 /\ peer_message_tx' = Append(peer_message_tx, pm)
                 /\ txLog' = Append(txLog, pm)
                 /\ calls' = [calls EXCEPT ![c] = me]
        ELSE /\ chans' = Append(chans, [NewChan EXCEPT !.rx = FALSE, !.tx = FALSE])
             /\ calls' = [calls EXCEPT ![c] =
                            [me EXCEPT !.pc = "done", !.result = Err(key.err)]]
             /\ UNCHANGED <<peer_message_tx, txLog>>

\* the callers are numbered in the order of their calls
SendMessageSync(c) ==
    /\ calls[c].pc = "idle"
    /\ \A d \in 1..(c - 1) : calls[d].pc # "idle"
    /\ \E request \in {AboutRequest}, node \in StructKeys :
       \* a key that does not convert fails before the timeout is looked at
       \E timeoutOpt \in IF node = BadKey THEN {None}
                         ELSE {None, Some(ShortTimeoutSecs)} :
          SyncEnqueue(c, "send", request, node, timeoutOpt, SendTimeout(timeoutOpt))
    /\ UNCHANGED <<peer_message_rx, transaction, rxLog, tmLog, bcast, dispatchVars, partyVars>>

\* tokio::time::timeout(timeout, r.recv_async_err()): the receive is polled
\* first, so a queued Response wins over an expired timer
AwaitRecv(c) ==
    LET ch == Get(calls[c].chan)
    IN  /\ calls[c].pc = "await"
        /\ chans[ch].q # <<>>
        /\ calls' = [calls EXCEPT ![c].pc = "done",
                                  ![c].result = Ok(Head(chans[ch].q))]
        /\ chans' = ChanDropRx(chans, ch)

\* every Sender of the reply channel was dropped without a Response: the
\* receive fails at once
AwaitDisconnected(c) ==
    LET ch == Get(calls[c].chan)
    IN  /\ calls[c].pc = "await"
        /\ chans[ch].q = <<>>
        /\ ~chans[ch].tx
        /\ calls' = [calls EXCEPT ![c].pc = "done", ![c].result = Err("recv")]
        /\ chans' = ChanDropRx(chans, ch)

\* the timer expired with the receive still pending
AwaitTimeout(c) ==
    LET ch == Get(calls[c].chan)
    IN  /\ calls[c].pc = "await"
        /\ calls[c].kind \in {"send", "static", "receive"}
        /\ chans[ch].q = <<>>
        /\ chans[ch].tx
        /\ calls[c].elapsed >= calls[c].timeout
        /\ calls' = [calls EXCEPT ![c].pc = "done", ![c].result = Err("timeout")]
        /\ chans' = ChanDropRx(chans, ch)

SendMessageSyncReturn(c) ==
    /\ calls[c].kind = "send"
    /\ \/ AwaitRecv(c)
       \/ AwaitDisconnected(c)
       \/ AwaitTimeout(c)
    /\ UNCHANGED <<peer_message_tx, peer_message_rx, transaction,
                   txLog, rxLog, tmLog, bcast, dispatchVars, partyVars>>

(***************************************************************************)
(* The network transport, an external consumer of peer_message_tx: it      *)
(* takes a message off the queue and then answers on the reply channel,    *)
(* drops the message without answering, or keeps it for ever.              *)
(***************************************************************************)
\* what the peer answers to a request
PeerResponse(pm) ==
    [EmptyResponse EXCEPT
        !.node_metadata = pm.public_key,
        !.about_node_response =
            IF IsSome(pm.request.about_node_request) THEN pm.public_key ELSE None,
        !.get_peers_info_response =
            IF IsSome(pm.request.get_peers_info_request) THEN pm.public_key ELSE None]

WireResponses(pm) == {PeerResponse(pm)}

\* the queue without its k-th message
Without(queue, k) == SubSeq(queue, 1, k - 1) \o SubSeq(queue, k + 1, Len(queue))

\* the transport serves the requests it drained concurrently, so the answers
\* come in any order
TransportReply ==
    /\ \E k \in 1..Len(peer_message_tx) :
          LET pm == peer_message_tx[k]
          IN  /\ IsSome(pm.response)
              /\ \E r \in WireResponses(pm) :
                    chans' = ChanDropTx(ChanSend(chans, Get(pm.response), r),
                                        Get(pm.response))
              /\ peer_message_tx' = Without(peer_message_tx, k)
    /\ UNCHANGED <<calls, peer_message_rx, transaction,
                   txLog, rxLog, tmLog, bcast, dispatchVars, partyVars>>

TransportDrop ==
    /\ \E k \in 1..Len(peer_message_tx) :
          LET pm == peer_message_tx[k]
          IN  /\ chans' = IF IsSome(pm.response)
                          THEN ChanDropTx(chans, Get(pm.response)) ELSE chans
              /\ peer_message_tx' = Without(peer_message_tx, k)
    /\ UNCHANGED <<calls, peer_message_rx, transaction,
                   txLog, rxLog, tmLog, bcast, dispatchVars, partyVars>>

(***************************************************************************)
(* Time.  The clock advances for every awaiting call at once; a timer that *)
(* has expired fires before the clock advances again.                      *)
(***************************************************************************)
\* longest wait followed for an await that has no timer
MaxWaitSecs == 80

HasTimer(call) == call.kind \in {"send", "static", "receive"}

Advance ==
    /\ \E c \in DOMAIN calls : calls[c].pc = "await"
    /\ \A c \in DOMAIN calls :
          calls[c].pc = "await" =>
             IF HasTimer(calls[c])
             THEN calls[c].elapsed < calls[c].timeout
             ELSE calls[c].elapsed < MaxWaitSecs
    /\ calls' = [c \in DOMAIN calls |->
                    IF calls[c].pc = "await"
                    THEN [calls[c] EXCEPT !.elapsed = @ + TickSecs]
                    ELSE calls[c]]
    /\ UNCHANGED <<chans, peer_message_tx, peer_message_rx, transaction,
                   txLog, rxLog, tmLog, bcast, dispatchVars, partyVars>>

(***************************************************************************)
(* Relay::broadcast (relay.rs:173-203) over send_message_sync_static       *)
(* (relay.rs:139-153)                                                      *)
(***************************************************************************)
\* longest node list given to broadcast
MaxBcastNodes == 2

IdleBcast == [ pc |-> "idle", nodes |-> <<>>, request |-> EmptyRequest,
               timeout |-> 0, order |-> <<>>, results |-> <<>> ]

NodeLists == UNION { [1..n -> StructKeys] : n \in 0..MaxBcastNodes }

\* timeout.unwrap_or(Duration::from_secs(20))
BroadcastTimeout(timeoutOpt) == UnwrapOr(timeoutOpt, BroadcastTimeoutSecs)

\* lines 183-200: one future per node, in node order; each spawns a task
\* running send_message_sync_static
Broadcast ==
    /\ bcast.pc = "idle"
    /\ \E nodes \in NodeLists, request \in {PeersRequest},
          timeoutOpt \in {None} :
          /\ bcast' = [IdleBcast EXCEPT !.pc = "join", !.nodes = nodes,
                                        !.request = request,
                                        !.timeout = BroadcastTimeout(timeoutOpt)]
          /\ calls' = [c \in 1..Len(nodes) |->
                         [IdleCall EXCEPT !.kind = "static", !.pc = "spawned",
                                          !.request = request, !.node = nodes[c]]]
    /\ UNCHANGED <<chans, peer_message_tx, peer_message_rx, transaction,
                   txLog, rxLog, tmLog, dispatchVars, partyVars>>

\* the spawned task of node i runs up to its await
SendMessageSyncStatic(i) ==
    /\ bcast.pc = "join"
    /\ calls[i].pc = "spawned"
    /\ SyncEnqueue(i, "static", bcast.request, bcast.nodes[i],
                   Some(bcast.timeout), SendTimeout(Some(bcast.timeout)))
    /\ bcast' = IF calls'[i].pc = "done"
                THEN [bcast EXCEPT !.order = Append(@, i)] ELSE bcast
    /\ UNCHANGED <<peer_message_rx, transaction, rxLog, tmLog, dispatchVars, partyVars>>

SendMessageSyncStaticReturn(i) ==
    /\ bcast.pc = "join"
    /\ calls[i].kind = "static"
    /\ \/ AwaitRecv(i)
       \/ AwaitDisconnected(i)
       \/ AwaitTimeout(i)
    /\ bcast' = [bcast EXCEPT !.order = Append(@, i)]
    /\ UNCHANGED <<peer_message_tx, peer_message_rx, transaction,
                   txLog, rxLog, tmLog, dispatchVars, partyVars>>

\* each future yields (node.clone(), result of its own task)
BroadcastEntry(nodes, outcomes, i) == <<nodes[i], outcomes[i]>>

\* FuturesUnordered: entries in the order the tasks completed
JoinCompletionOrder(nodes, outcomes, order) ==
    [k \in 1..Len(order) |-> BroadcastEntry(nodes, outcomes, order[k])]
\* future::join_all(fu): one entry per future, in the order of the vec
JoinAll(nodes, outcomes, order) ==
    [k \in 1..Len(nodes) |-> BroadcastEntry(nodes, outcomes, k)]

BroadcastJoin ==
    /\ bcast.pc = "join"
    /\ \A i \in 1..Len(bcast.nodes) : calls[i].pc = "done"
    /\ bcast' = [bcast EXCEPT
                    !.pc = "done",
                    !.results = JoinAll(bcast.nodes,
                                        [i \in 1..Len(bcast.nodes) |-> calls[i].result],
                                        bcast.order)]
    /\ UNCHANGED <<calls, chans, peer_message_tx, peer_message_rx, transaction,
                   txLog, rxLog, tmLog, dispatchVars, partyVars>>

(***************************************************************************)
(* Relay::submit_transaction (relay.rs:228-262) and the transaction         *)
(* processor, an external consumer of Relay.transaction.                    *)
(***************************************************************************)
Txs == {"tx1", "tx2"}
\* Transaction::hash(): the digest of a transaction, distinct from it
TxHash(t) == <<"sha256", t>>

\* SubmitTransactionRequest { transaction, sync_query_response }
SubmitRequests ==
    [ transaction : {None} \cup {Some(t) : t \in Txs},
      sync_query_response : BOOLEAN ]

\* a reply sender handed to the processor whatever the request asked
ResponseChannelAlways(sync, ch) == Some(ch)
\* lines 233-237
ResponseChannel(sync, ch) == IF sync THEN Some(ch) ELSE None

\* lines 250-254: the response built on the caller's side
ClientSideResponse(t) ==
    [ transaction_hash |-> Some(TxHash(t)),
      query_transaction_response |-> None,
      transaction |-> Some(t) ]

\* lines 232-254: what the call queues, whether it then waits, and what it
\* returns when it does not wait
SubmitEffect(tx_req, ch) ==
    IF tx_req.transaction = None
    THEN [ tm |-> None, wait |-> FALSE,
           result |-> Err("Missing transaction field on submit request") ]
    ELSE LET t == Get(tx_req.transaction)
         IN  [ tm |-> Some([ transaction |-> t,
                             response_channel |->
                                 ResponseChannel(tx_req.sync_query_response, ch) ]),
               wait |-> tx_req.sync_query_response,
               result |-> Ok(ClientSideResponse(t)) ]

\* the channel of line 232 as the call leaves it: both ends are dropped on
\* return unless the call waits on the receiver
SubmitChan(eff) ==
    IF eff.wait THEN NewChan
    ELSE [NewChan EXCEPT !.rx = FALSE,
                         !.tx = IsSome(eff.tm) /\ IsSome(Get(eff.tm).response_channel)]

\* lines 257-258: as_error_info()? and submit_transaction_response.safe_get()?
SubmitReceived(response1) ==
    IF IsSome(response1.error) THEN Err(Get(response1.error))
    ELSE IF response1.submit_transaction_response = None THEN Err("safe_get")
    ELSE Ok(Get(response1.submit_transaction_response))

\* line 256: r.recv_async_err().await? with no timer around it
SubmitCanReturn(ch) == chans[ch].q # <<>> \/ ~chans[ch].tx
SubmitAwaited(ch) ==
    IF chans[ch].q # <<>> THEN SubmitReceived(Head(chans[ch].q)) ELSE Err("recv")

SubmitTransaction(c) ==
    /\ calls[c].pc = "idle"
    /\ \A d \in 1..(c - 1) : calls[d].pc # "idle"
    /\ \E tx_req \in SubmitRequests :
          LET ch  == Len(chans) + 1
              eff == SubmitEffect(tx_req, ch)
              me  == [IdleCall EXCEPT !.kind = "submit", !.request = tx_req,
                                      !.chan = Some(ch)]
          IN  /\ chans' = Append(chans, SubmitChan(eff))
              /\ transaction' = transaction \o eff.tm
              /\ tmLog' = tmLog \o eff.tm
              /\ calls' = [calls EXCEPT ![c] =
                              IF eff.wait THEN [me EXCEPT !.pc = "await"]
                              ELSE [me EXCEPT !.pc = "done", !.result = eff.result]]
    /\ UNCHANGED <<peer_message_tx, peer_message_rx, txLog, rxLog, bcast, dispatchVars, partyVars>>

SubmitTransactionReturn(c) ==
    LET ch == Get(calls[c].chan)
    IN  /\ calls[c].kind = "submit"
        /\ calls[c].pc = "await"
        /\ SubmitCanReturn(ch)
        /\ calls' = [calls EXCEPT ![c].pc = "done", ![c].result = SubmitAwaited(ch)]
        /\ chans' = ChanDropRx(chans, ch)
        /\ UNCHANGED <<peer_message_tx, peer_message_rx, transaction,
                       txLog, rxLog, tmLog, bcast, dispatchVars, partyVars>>

\* what the processor may answer for a transaction
ProcessorResponses(tm) ==
    { [EmptyResponse EXCEPT !.submit_transaction_response =
          Some([ transaction_hash |-> Some(TxHash(tm.transaction)),
                 query_transaction_response |-> Some("accepted"),
                 transaction |-> Some(tm.transaction) ])],
      FromErrorInfo("rejected") }

\* the processor answers a message it took, then lets go of the sender
ProcessorReply ==
    /\ \E k \in 1..Len(transaction) :
          LET tm == transaction[k]
          IN  /\ IsSome(tm.response_channel)
              /\ \E r \in ProcessorResponses(tm) :
                    chans' = ChanDropTx(ChanSend(chans, Get(tm.response_channel), r),
                                        Get(tm.response_channel))
              /\ transaction' = Without(transaction, k)
    /\ UNCHANGED <<calls, peer_message_tx, peer_message_rx,
                   txLog, rxLog, tmLog, bcast, dispatchVars, partyVars>>

\* the processor is done with a message without answering it
ProcessorDrop ==
    /\ \E k \in 1..Len(transaction) :
          LET tm == transaction[k]
          IN  /\ chans' = IF IsSome(tm.response_channel)
                          THEN ChanDropTx(chans, Get(tm.response_channel)) ELSE chans
              /\ transaction' = Without(transaction, k)
    /\ UNCHANGED <<calls, peer_message_tx, peer_message_rx,
                   txLog, rxLog, tmLog, bcast, dispatchVars, partyVars>>

(***************************************************************************)
(* Relay::receive_message_sync (relay.rs:155-169)                          *)
(***************************************************************************)
\* number of inbound requests posted to receive_message_sync
NumInbound == 1
InboundIds == 1..NumInbound

\* a proof of origin: the key it claims and whether its signature verifies
Proofs == { None,
            Some([public_key |-> "pkA", valid |-> FALSE]),
            Some([public_key |-> "pkA", valid |-> TRUE]),
            Some([public_key |-> "pkB", valid |-> TRUE]) }

\* request.verify_auth(): the proven key, or an error
VerifyAuth(request) ==
    IF request.proof = None THEN Err("no proof")
    ELSE IF Get(request.proof).valid THEN Ok(Get(request.proof).public_key)
    ELSE Err("invalid proof")

\* the claimed key taken without verification
ReceiveKeyUnverified(request) ==
    IF request.proof = None THEN Ok("pkA") ELSE Ok(Get(request.proof).public_key)
\* line 156: let key = request.verify_auth()?
ReceiveKey(request) == VerifyAuth(request)

\* the sub-requests an inbound request may carry
RequestBodies ==
    { [EmptyRequest EXCEPT
          !.submit_transaction_request = sub, !.get_peers_info_request = Some("peers")] :
          sub \in { Some([transaction |-> None, sync_query_response |-> FALSE]),
                    Some([transaction |-> Some("tx1"), sync_query_response |-> TRUE]) } }
    \cup { [EmptyRequest EXCEPT !.about_node_request = Some("about"),
                                !.get_peers_info_request = Some("peers")] }

\* a sender attaches its proof and, with it, its node metadata
InboundRequests ==
    { [body EXCEPT !.proof = prf,
                   !.node_metadata =
                       IF prf = None THEN None ELSE Some(Get(prf).public_key)] :
          body \in RequestBodies, prf \in Proofs }

ReceiveMessageSync(c) ==
    /\ calls[c].pc = "idle"
    /\ \E request \in InboundRequests, timeoutOpt \in {None} :
          LET key == ReceiveKey(request)
              me  == [IdleCall EXCEPT !.kind = "receive", !.request = request,
                                      !.asked = timeoutOpt,
                                      !.timeout = SendTimeout(timeoutOpt)]
              ch  == Len(chans) + 1
          IN  IF ~key.ok
              THEN /\ calls' = [calls EXCEPT ![c] =
                                  [me EXCEPT !.pc = "done", !.result = Err(key.err)]]
                   /\ UNCHANGED <<chans, peer_message_rx, rxLog>>
              ELSE LET pk == ToPublicKey(Get(key.val))
                   IN  IF ~pk.ok
                       THEN /\ calls' = [calls EXCEPT ![c] =
                                   [me EXCEPT !.pc = "done", !.chan = Some(ch),
                                              !.result = Err(pk.err)]]
                            /\ chans' = Append(chans,
                                   [NewChan EXCEPT !.rx = FALSE, !.tx = FALSE])
                            /\ UNCHANGED <<peer_message_rx, rxLog>>
                       ELSE LET pm == SyncPeerMessage(request, Get(pk.val), ch)
                            IN  /\ calls' = [calls EXCEPT ![c] =
                                       [me EXCEPT !.pc = "await", !.chan = Some(ch)]]
                                /\ chans' = Append(chans, NewChan)
                                /\ peer_message_rx' = Append(peer_message_rx, pm)
                                /\ rxLog' = Append(rxLog, pm)
    /\ UNCHANGED <<peer_message_tx, transaction, txLog, tmLog, bcast, dispatchVars, partyVars>>

ReceiveMessageSyncReturn(c) ==
    /\ calls[c].kind = "receive"
    /\ \/ AwaitRecv(c)
       \/ AwaitDisconnected(c)
       \/ AwaitTimeout(c)
    /\ UNCHANGED <<peer_message_tx, peer_message_rx, transaction,
                   txLog, rxLog, tmLog, bcast, dispatchVars, partyVars>>

(***************************************************************************)
(* PeerRxEventHandler (peer_rx_event_handler.rs): run (259-266) drains     *)
(* peer_message_rx into request_response_rest (46-117), which answers with  *)
(* the result of request_response (130-239).                               *)
(***************************************************************************)
\* peer_rx_event_handler.rs:262 try_for_each_concurrent(10, ...)
Concurrency == 10
\* the public key of this node
SelfKey == "pkSelf"

\* response.with_metadata(relay.node_config.node_metadata())
WithMetadata(response) == [response EXCEPT !.node_metadata = Some(SelfKey)]
\* response.with_auth(&keypair)
WithAuth(response) ==
    [response EXCEPT !.proof = Some([public_key |-> SelfKey, valid |-> TRUE])]

\* lines 150-189 for the fields of the model: get_peers_info, whose store
\* query may fail, then about_node
RestOfRequestResponse(request, response, dbOk) ==
    IF IsSome(request.get_peers_info_request) /\ ~dbOk
    THEN Err("peer_node_info")
    ELSE LET r1 == IF IsSome(request.get_peers_info_request)
                   THEN [response EXCEPT
                           !.get_peers_info_response = Some([peer_info |-> peer_store])]
                   ELSE response
             r2 == IF IsSome(request.about_node_request)
                   THEN [r1 EXCEPT
                           !.about_node_response = Some([latest_metadata |-> Some(SelfKey)])]
                   ELSE r1
         IN  Ok(r2)

\* lines 145-148 once the submit returned: its ? ends request_response
AfterSubmit(request, submitted, dbOk) ==
    IF submitted.ok
    THEN RestOfRequestResponse(request,
            [EmptyResponse EXCEPT !.submit_transaction_response = submitted.val], dbOk)
    ELSE Err(submitted.err)

\* an error that leaves the Response as an empty success
CombineDropsError(result) ==
    IF result.ok THEN Get(result.val) ELSE EmptyResponse
\* lines 55-58: .map_err(|e| Response::from_error_info(e)).combine()
Combine(result) ==
    IF result.ok THEN Get(result.val) ELSE FromErrorInfo(result.err)

\* lines 55-60
BuildResponse(result) == WithAuth(WithMetadata(Combine(result)))

NewHandler(pm) ==
    [ pm |-> pm, pc |-> "start", outcome |-> NoResult, response |-> None,
      reply |-> "none", sub |-> None ]

InFlight(hs) == {h \in DOMAIN hs : hs[h].pc \in {"submit_await", "replied"}}

\* a handler returned Err: try_for_each_concurrent drops the futures still in
\* flight, and with them their reply senders and submit receivers
Cancel(hs, h) ==
    [k \in DOMAIN hs |->
        IF k # h /\ k \in InFlight(hs) THEN [hs[k] EXCEPT !.pc = "cancelled"] ELSE hs[k]]
CancelChans(hs, chs, h) ==
    [id \in DOMAIN chs |->
        IF \E k \in DOMAIN hs \ {h} :
              hs[k].pc = "submit_await" /\ hs[k].pm.response = Some(id)
        THEN [chs[id] EXCEPT !.tx = FALSE]
        ELSE IF \E k \in DOMAIN hs \ {h} :
                   hs[k].pc = "submit_await" /\ hs[k].sub = Some(id)
        THEN [chs[id] EXCEPT !.rx = FALSE, !.q = <<>>]
        ELSE chs[id]]

\* a handler that leaves the reply for after its bookkeeping
RespondAfterBookkeeping(hs, chs, h, result) ==
    /\ handlers' = [hs EXCEPT ![h] =
                      [@ EXCEPT !.pc = "replied", !.outcome = result,
                                !.response = Some(BuildResponse(result))]]
    /\ chans' = chs
    /\ rxLoop' = rxLoop

\* lines 55-66: build the Response and send it on the reply channel; a send
\* on a channel whose receiver is gone fails and ends the handler with Err
Respond(hs, chs, h, result) ==
    LET pm == hs[h].pm
        response == BuildResponse(result)
        hr == [hs[h] EXCEPT !.outcome = result, !.response = Some(response)]
    IN  IF IsSome(pm.response) /\ ~chs[Get(pm.response)].rx
        THEN /\ handlers' = Cancel([hs EXCEPT ![h] =
                                      [hr EXCEPT !.pc = "failed", !.reply = "closed"]], h)
             /\ chans' = CancelChans(hs, ChanDropTx(chs, Get(pm.response)), h)
             /\ rxLoop' = "stopped"
        ELSE /\ handlers' = [hs EXCEPT ![h] =
                               [hr EXCEPT !.pc = "replied",
                                          !.reply = IF IsSome(pm.response)
                                                    THEN "sent" ELSE "none"]]
             /\ chans' = IF IsSome(pm.response)
                         THEN ChanDropTx(ChanSend(chs, Get(pm.response), response),
                                         Get(pm.response))
                         ELSE chs
             /\ rxLoop' = rxLoop

\* run takes the next PeerMessage and polls its handler: request_response
\* runs up to the await of a synchronous submit, or to the end and the reply
RequestResponseRest ==
    /\ rxLoop = "running"
    /\ peer_message_rx # <<>>
    /\ Cardinality(InFlight(handlers)) < Concurrency
    /\ LET pm == Head(peer_message_rx)
           request == pm.request
           h  == Len(handlers) + 1
           hs == Append(handlers, NewHandler(pm))
           ch == Len(chans) + 1
       IN  /\ peer_message_rx' = Tail(peer_message_rx)
           /\ \E dbOk \in BOOLEAN :
                 IF IsSome(request.submit_transaction_request)
                 THEN LET eff == SubmitEffect(Get(request.submit_transaction_request), ch)
                          chs == Append(chans, SubmitChan(eff))
                      IN  /\ transaction' = transaction \o eff.tm
                          /\ tmLog' = tmLog \o eff.tm
                          /\ IF eff.wait
                             THEN /\ handlers' = [hs EXCEPT ![h].pc = "submit_await",
                                                            ![h].sub = Some(ch)]
                                  /\ chans' = chs
                                  /\ rxLoop' = rxLoop
                             ELSE Respond(hs, chs, h, AfterSubmit(request, eff.result, dbOk))
                 ELSE /\ Respond(hs, chans, h,
                                 RestOfRequestResponse(request, EmptyResponse, dbOk))
                      /\ UNCHANGED <<transaction, tmLog>>
    /\ UNCHANGED <<calls, peer_message_tx, txLog, rxLog, bcast,
                   peer_store, last_seen, about_tasks, discovery, observation,
                   partyVars>>

\* the synchronous submit of handler h returned: the rest of request_response
\* and the reply
RequestResponseResume(h) ==
    /\ handlers[h].pc = "submit_await"
    /\ LET ch == Get(handlers[h].sub)
       IN  /\ SubmitCanReturn(ch)
           /\ \E dbOk \in BOOLEAN :
                 Respond(handlers, ChanDropRx(chans, ch), h,
                         AfterSubmit(handlers[h].pm.request, SubmitAwaited(ch), dbOk))
    /\ UNCHANGED <<calls, peer_message_tx, peer_message_rx, transaction,
                   txLog, rxLog, tmLog, bcast, peer_store, last_seen, about_tasks, discovery,
                   observation,
                   partyVars>>

\* lines 68-115: all_peers()?, the about-node query spawned for an unknown
\* peer that proved its key, and the last-seen update of a known one
AfterReply(h) ==
    /\ handlers[h].pc = "replied"
    /\ LET pm == handlers[h].pm
           request == pm.request
       IN  \E dbOk \in BOOLEAN :
              IF ~dbOk
              THEN /\ handlers' = Cancel([handlers EXCEPT ![h].pc = "failed"], h)
                   /\ chans' = CancelChans(handlers, chans, h)
                   /\ rxLoop' = "stopped"
                   /\ UNCHANGED <<peer_store, last_seen, about_tasks>>
              ELSE /\ handlers' = [handlers EXCEPT ![h].pc = "done"]
                   /\ about_tasks' =
                         IF /\ IsSome(request.proof)
                            /\ Get(request.proof).public_key \notin peer_store
                            /\ IsSome(request.node_metadata)
                         THEN Append(about_tasks, Get(request.node_metadata))
                         ELSE about_tasks
                   /\ last_seen' =
                         IF IsSome(pm.public_key) /\ Get(pm.public_key) \in peer_store
                         THEN last_seen \cup {Get(pm.public_key)}
                         ELSE last_seen
                   /\ UNCHANGED <<chans, rxLoop, peer_store>>
    /\ UNCHANGED <<calls, peer_message_tx, peer_message_rx, transaction,
                   txLog, rxLog, tmLog, bcast, discovery, observation, partyVars>>

\* lines 120-128: the spawned query returned; a Response carrying the peer's
\* latest metadata adds the peer
HandleAboutPeerResponse ==
    /\ about_tasks # <<>>
    /\ \E answered \in BOOLEAN :
          peer_store' = IF answered THEN peer_store \cup {Head(about_tasks)}
                        ELSE peer_store
    /\ about_tasks' = Tail(about_tasks)
    /\ UNCHANGED <<relayVars, handlers, rxLoop, last_seen, discovery, observation,
                   partyVars>>

(***************************************************************************)
(* Discovery (discovery.rs): interval_fold (30-107).  The peer store holds  *)
(* one node transaction per public key; a PeerNodeInfo is taken by the key  *)
(* of its latest_node_transaction.                                          *)
(***************************************************************************)
\* the record of the last Discovery call: a tick, or a push-discovery
\* message (pushed); none yet
NoDiscovery == [ peers |-> <<>>, failed |-> {}, named |-> {},
                 completed |-> FALSE, before_merge |-> {}, merged |-> {},
                 attempted |-> {}, refused |-> {}, pushed |-> None ]

\* what a peer answers to get_peers_info_request: nothing for it, or the
\* peers it knows and, as self_info, nothing, the node transaction the store
\* holds for it ("same"), or another one, of some key
GetPeersInfoResponses ==
    { None } \cup
    { Some([ peer_info |-> peer_info, self_info |-> self_info ]) :
        peer_info \in { {} } \cup { {k} : k \in Nodes \cup {SelfKey} },
        self_info \in { None, Some("same") }
                          \cup { Some(k) : k \in Nodes \cup {SelfKey} } }
\* an entry of what broadcast_async returns
BroadcastResults ==
    { Err("timeout") } \cup
    { Ok([EmptyResponse EXCEPT !.get_peers_info_response = o]) :
        o \in GetPeersInfoResponses }

\* peer_store.add_peer_new(info, &self.relay.node_config.public_key()): the
\* store takes the node transaction of info unless its key is the key given
AddPeerNew(store, pk) == IF pk = SelfKey THEN store ELSE store \cup {pk}

\* a tick that keeps the peer whose request failed
DiscoveryResultKeepsFailed(store, r, pk_o) ==
    IF ~r.ok
    THEN store
    ELSE LET o == Get(r.val).get_peers_info_response
         IN  IF o = None \/ Get(o).self_info = None
             THEN store
             ELSE IF Get(Get(o).self_info) = "same"
             THEN AddPeerNew(store, pk_o)
             ELSE AddPeerNew(store \ {pk_o}, Get(Get(o).self_info))
\* lines 53-82, the store after one result r of the peer pk_o: a peer whose
\* self_info differs from the stored transaction is removed, the self_info
\* is added, a peer whose request failed is removed
DiscoveryResult(store, r, pk_o) ==
    IF ~r.ok
    THEN store \ {pk_o}
    ELSE LET o == Get(r.val).get_peers_info_response
         IN  IF o = None \/ Get(o).self_info = None
             THEN store
             ELSE IF Get(Get(o).self_info) = "same"
             THEN AddPeerNew(store, pk_o)
             ELSE AddPeerNew(store \ {pk_o}, Get(Get(o).self_info))

\* lines 51-83: the results in the order of the peers; a store operation
\* that fails returns the error, which ends the tick (fails_at, 0 for none)
RECURSIVE DiscoveryResults(_, _, _, _, _)
DiscoveryResults(store, peers, results, i, fails_at) ==
    IF i > Len(peers)
    THEN [ store |-> store, completed |-> TRUE ]
    ELSE LET after == DiscoveryResult(store, results[i], peers[i])
             uses_store ==
                \/ ~results[i].ok
                \/ /\ Get(results[i].val).get_peers_info_response # None
                   /\ Get(Get(results[i].val).get_peers_info_response).self_info # None
         IN  IF i = fails_at /\ uses_store
             THEN [ store |-> store, completed |-> FALSE ]
             ELSE DiscoveryResults(after, peers, results, i + 1, fails_at)

\* line 60: the peers the answers list
DiscoveryMerged(results) ==
    UNION { Get(Get(results[i].val).get_peers_info_response).peer_info :
              i \in { j \in 1..Len(results) :
                        /\ results[j].ok
                        /\ Get(results[j].val).get_peers_info_response # None } }

\* lines 61-72: the keys of the self_info of the answers that differ from
\* the stored transaction
DiscoverySelfInfo(results) ==
    { Get(Get(Get(results[i].val).get_peers_info_response).self_info) :
        i \in { j \in 1..Len(results) :
                  /\ results[j].ok
                  /\ Get(results[j].val).get_peers_info_response # None
                  /\ Get(Get(results[j].val).get_peers_info_response).self_info
                        \notin {None, Some("same")} } }

\* a merge step that takes this node for a new peer
MergeAttemptsWithSelf(store, reached) == { pk \in reached : pk \notin store }
\* lines 87-93: of the listed peers the loop reaches, those that are not this
\* node and not known
MergeAttempts(store, reached) ==
    { pk \in reached : pk # SelfKey /\ pk \notin store }

\* the orders in which the loop may leave the listed peers: all of them
\* reached, or some left behind a lookup (line 92) that failed on a peer that
\* is not this node
MergeReached(merged) ==
    { reached \in SUBSET merged :
        reached # merged => \E pk \in merged \ reached : pk # SelfKey }

\* a merge step that gives up at the first add that fails
DiscoveryAddNewStopsAtError(store, reached, refused) ==
    IF refused = {} THEN store \cup MergeAttempts(store, reached) ELSE store
\* lines 87-105: the add is called for every attempt; an error of that add
\* (refused) is logged only
DiscoveryAddNew(store, reached, refused) ==
    store \cup (MergeAttempts(store, reached) \ refused)

\* Discovery::interval_fold
DiscoveryIntervalFold ==
    /\ \E peers \in [1..Cardinality(peer_store) -> peer_store] :
          /\ \A i, j \in DOMAIN peers : peers[i] = peers[j] => i = j
          /\ \E results \in [DOMAIN peers -> BroadcastResults],
                fails_at \in 0..Len(peers) :
                LET first == DiscoveryResults(peer_store, peers, results, 1,
                                              fails_at)
                    merged == IF first.completed THEN DiscoveryMerged(results)
                              ELSE {}
                IN  \E reached \in MergeReached(merged) :
                    \E refused \in SUBSET MergeAttempts(first.store, reached) :
                       /\ peer_store' =
                             DiscoveryAddNew(first.store, reached, refused)
                       /\ discovery' =
                             [ peers |-> peers,
                               failed |-> { peers[i] : i \in { j \in DOMAIN peers :
                                                                 ~results[j].ok } },
                               named |-> DiscoveryMerged(results)
                                           \cup DiscoverySelfInfo(results),
                               completed |-> first.completed /\ reached = merged,
                               before_merge |-> first.store,
                               merged |-> merged,
                               attempted |-> MergeAttempts(first.store, reached),
                               refused |-> refused,
                               pushed |-> None ]
    /\ UNCHANGED <<relayVars, handlers, rxLoop, last_seen, about_tasks, observation,
                   partyVars>>

\* what send_message_sync_pm returns for the about-node request of a
\* push-discovery message: an error, or a Response whose about_node_response
\* may be missing, or lack the peer_node_info, or hold one of some key
AboutResponses ==
    { Err("timeout") } \cup
    { Ok([EmptyResponse EXCEPT !.about_node_response = o]) :
        o \in { None } \cup
              { Some([ peer_node_info |-> i ]) :
                  i \in { None } \cup { Some(k) : k \in Nodes \cup {SelfKey} } } }

\* lines 169-190 process: every nested field must be there, then the peer
\* is added; the error of the add is returned
DiscoveryProcess(store, response, stored) ==
    IF response.about_node_response = None
    THEN [ store |-> store,
           done |-> Err("Missing about node response during peer discovery") ]
    ELSE IF Get(response.about_node_response).peer_node_info = None
    THEN [ store |-> store,
           done |-> Err("Missing about node response peer_node_info during peer discovery") ]
    ELSE IF ~stored
    THEN [ store |-> store, done |-> Err("add_peer_new") ]
    ELSE [ store |-> AddPeerNew(store,
                        Get(Get(response.about_node_response).peer_node_info)),
           done |-> Ok("added") ]

\* lines 128-153 recv_for_each: a push-discovery message about some node,
\* which line 127 does not keep from being this node; the error of the
\* request or of process is logged, the call returns Ok
DiscoveryRecvForEach ==
    /\ \E message \in Nodes \cup {SelfKey}, result \in AboutResponses,
          stored \in BOOLEAN :
          LET after == IF result.ok
                       THEN DiscoveryProcess(peer_store, Get(result.val), stored)
                       ELSE [ store |-> peer_store, done |-> result ]
          IN  /\ peer_store' = after.store
              /\ discovery' = [NoDiscovery EXCEPT
                                 !.pushed = Some([ message |-> message,
                                                   result |-> result,
                                                   done |-> after.done ])]
    /\ UNCHANGED <<relayVars, handlers, rxLoop, last_seen, about_tasks, observation,
                   partyVars>>

(***************************************************************************)
(* ObservationHandler (process_observation.rs): run (59-68) drains          *)
(* relay.observation into process_message (42-56), which notifies the       *)
(* transaction processors waiting in relay.transaction_channels (18-40)     *)
(* and then stores the observation.                                         *)
(***************************************************************************)
\* observations gossiped to this node
NumObservations == 2
\* messages the internal channel of a transaction processor holds
ProcessorCapacity == 1
\* process_observation.rs:62 try_for_each_concurrent(200, ...)
ObservationConcurrency == 200

TxHashes == {"h1", "h2"}
\* the hashes an observation may observe, by hash_type
ObservedSets ==
    { {},
      { [hash |-> "h1", hash_type |-> "Transaction"] },
      { [hash |-> "h1", hash_type |-> "Observation"] },
      { [hash |-> "h1", hash_type |-> "Transaction"],
        [hash |-> "h2", hash_type |-> "Transaction"] } }

\* nothing gossiped, nothing stored, no transaction processor waiting
NoObservations ==
    [ queue |-> <<>>, received |-> 0, handlers |-> <<>>, loop |-> "running",
      store |-> {}, channels |-> [h \in TxHashes |-> None] ]

\* internal_channel.sender.try_send(message) on the channel ch
TrySendOk(ch) == ch.open /\ Len(ch.q) < ProcessorCapacity

\* lines 18-40 notify_subscribers: a ProofReceived message for every
\* observed transaction hash a processor waits for; a send that fails is
\* logged and counted
NotifySubscribers(channels, o) ==
    LET waiting == IF o.proofs_ok
                   THEN { h.hash : h \in { x \in o.observed :
                                             /\ x.hash_type = "Transaction"
                                             /\ channels[x.hash] # None } }
                   ELSE {}
        sent == { h \in waiting : TrySendOk(Get(channels[h])) }
    IN  [ channels |-> [h \in TxHashes |->
                           IF h \in sent
                           THEN Some([Get(channels[h]) EXCEPT
                                        !.q = Append(@, <<"ProofReceived", o.id>>)])
                           ELSE channels[h]],
          sent |-> sent,
          failed |-> waiting \ sent ]

\* a handler that gives up when a send to a processor fails
AfterNotifyGivesUp(o, notified) ==
    [ o |-> o, sent |-> notified.sent, failed |-> notified.failed,
      pc |-> IF notified.failed = {} THEN "insert" ELSE "failed",
      result |-> NoResult ]
\* line 52: notify_subscribers returns nothing; the handler goes on to the
\* insert of line 53
AfterNotify(o, notified) ==
    [ o |-> o, sent |-> notified.sent, failed |-> notified.failed,
      pc |-> "insert", result |-> NoResult ]

\* a peer gossips an observation: it is pushed on relay.observation
GossipObservation ==
    /\ observation.received < NumObservations
    /\ \E proofs_ok \in BOOLEAN, observed \in ObservedSets :
          observation' = [observation EXCEPT
              !.received = @ + 1,
              !.queue = Append(@, [ id |-> observation.received + 1,
                                    proofs_ok |-> proofs_ok,
                                    observed |-> observed ])]
    /\ UNCHANGED <<relayVars, handlers, rxLoop, peer_store, last_seen, about_tasks,
                   discovery, partyVars>>

\* lines 42-52: run takes the next observation and polls process_message up
\* to the await of the insert
ProcessMessage ==
    /\ observation.loop = "running"
    /\ observation.queue # <<>>
    /\ Cardinality({h \in DOMAIN observation.handlers :
                       observation.handlers[h].pc = "insert"}) < ObservationConcurrency
    /\ LET o == Head(observation.queue)
           notified == NotifySubscribers(observation.channels, o)
       IN  observation' = [observation EXCEPT
               !.queue = Tail(@),
               !.channels = notified.channels,
               !.handlers = Append(@, AfterNotify(o, notified))]
    /\ UNCHANGED <<relayVars, handlers, rxLoop, peer_store, last_seen, about_tasks,
                   discovery, partyVars>>

\* lines 53-55: insert_observation_and_edges(&o).await?; its error ends the
\* handler, and with it run and the handlers still in flight
InsertObservationAndEdges(h) ==
    /\ h \in DOMAIN observation.handlers
    /\ observation.handlers[h].pc = "insert"
    /\ \E stored \in BOOLEAN :
          observation' =
             IF stored
             THEN [observation EXCEPT
                     !.store = @ \cup {observation.handlers[h].o.id},
                     !.handlers[h].pc = "done",
                     !.handlers[h].result = Ok("stored")]
             ELSE [observation EXCEPT
                     !.loop = "stopped",
                     !.handlers = [k \in DOMAIN @ |->
                         IF k = h
                         THEN [@[k] EXCEPT !.pc = "failed",
                                           !.result = Err("insert_observation_and_edges")]
                         ELSE IF @[k].pc = "insert"
                         THEN [@[k] EXCEPT !.pc = "cancelled"]
                         ELSE @[k]]]
    /\ UNCHANGED <<relayVars, handlers, rxLoop, peer_store, last_seen, about_tasks,
                   discovery, partyVars>>

\* a transaction processor registers its channel for the hash it works on,
\* takes a message from it, or ends and drops the receiver
TransactionProcessor(h) ==
    /\ \/ /\ observation.channels[h] = None
          /\ observation' = [observation EXCEPT
                 !.channels[h] = Some([q |-> <<>>, open |-> TRUE])]
       \/ /\ observation.channels[h] # None
          /\ Get(observation.channels[h]).open
          /\ Get(observation.channels[h]).q # <<>>
          /\ observation' = [observation EXCEPT
                 !.channels[h] = Some([Get(@) EXCEPT !.q = Tail(@)])]
       \/ /\ observation.channels[h] # None
          /\ Get(observation.channels[h]).open
          /\ observation' = [observation EXCEPT
                 !.channels[h] = Some([q |-> <<>>, open |-> FALSE])]
    /\ UNCHANGED <<relayVars, handlers, rxLoop, peer_store, last_seen, about_tasks,
                   discovery, partyVars>>

(***************************************************************************)
(* SingleKeyBitcoinWallet (keys/src/util/btc_wallet.rs) and                 *)
(* DepositWatcher::fulfill_btc_bids (watcher.rs:688-710).  Every            *)
(* w_arc.lock() guards one statement: the wallet is locked step by step.    *)
(***************************************************************************)
\* most inputs the wallet selects for one transaction
MaxInputs == 2
\* number of external events (BTC deposits, RDG withdrawal orders)
NumEvents == 2

\* two invocations of fulfill_btc_bids on one wallet handle
FulfillIds == {1, 2}
EventIds == 1..NumEvents

\* SingleKeyBitcoinWallet::new_wallet: no pending transaction, no proofs
NewWallet == [ psbt |-> None, transaction_details |-> None,
               proofs |-> [i \in 1..MaxInputs |-> None] ]

IdleFulfill == [ pc |-> "idle", outputs |-> <<>>, hashes |-> <<>>, i |-> 0,
                 result |-> NoResult, broadcast |-> None ]

\* segwit_sighash(&psbt, input_index): the digest to sign for one input
SigHash(psbt, i) == <<"sighash", psbt.outputs, psbt.inputs, i>>
\* transaction_details.txid
TxId(psbt) == <<"txid", psbt.outputs, psbt.inputs>>

\* btc_wallet.rs:586-601 signable_hashes: one digest per input of the
\* pending transaction
SignableHashes(w) ==
    IF w.psbt = None THEN Err("No psbt found")
    ELSE Ok([i \in 1..Get(w.psbt).inputs |-> SigHash(Get(w.psbt), i)])

\* btc_wallet.rs:611-620 sign with the MultipartySigner (151-178): an input
\* without a proof is an error; the result tells whether every input now
\* carries a signature of its own digest
Sign(w) ==
    IF w.psbt = None THEN Err("No psbt found")
    ELSE IF \E i \in 1..Get(w.psbt).inputs : w.proofs[i] = None
    THEN Err("No proof found")
    ELSE Ok(\A i \in 1..Get(w.psbt).inputs :
               w.proofs[i] = Some(SigHash(Get(w.psbt), i)))

\* watcher.rs:690-692 with btc_wallet.rs:557-579
\* create_transaction_output_batch: sync, select inputs, build the psbt
FulfillBuild(f, outputs) ==
    \E built \in BOOLEAN, inputs \in 1..MaxInputs :
        IF built
        THEN /\ wallet' = [wallet EXCEPT
                   !.psbt = Some([outputs |-> outputs, inputs |-> inputs, by |-> f]),
                   !.transaction_details =
                       Some(TxId([outputs |-> outputs, inputs |-> inputs]))]
             /\ fulfill' = [fulfill EXCEPT ![f] =
                   [IdleFulfill EXCEPT !.pc = "built", !.outputs = outputs]]
        ELSE /\ fulfill' = [fulfill EXCEPT ![f] =
                   [IdleFulfill EXCEPT !.pc = "failed", !.outputs = outputs,
                                       !.result = Err("Builder TX issue")]]
             /\ UNCHANGED wallet

\* watcher.rs:693-695
FulfillHashes(f) ==
    /\ fulfill[f].pc = "built"
    /\ LET hashes == SignableHashes(wallet)
       IN  fulfill' = [fulfill EXCEPT ![f] =
              IF hashes.ok
              THEN [@ EXCEPT !.pc = "signing", !.hashes = Get(hashes.val), !.i = 1]
              ELSE [@ EXCEPT !.pc = "failed", !.result = Err(hashes.err)]]
    /\ UNCHANGED <<wallet, btc_chain>>

\* watcher.rs:696-704: one signing round for digest i, awaited with the
\* wallet unlocked, then affix_input_signature(i, proof) under the lock
FulfillKeysign(f) ==
    /\ fulfill[f].pc = "signing"
    /\ fulfill[f].i <= Len(fulfill[f].hashes)
    /\ \E signed \in BOOLEAN :
          IF signed
          THEN /\ wallet' = [wallet EXCEPT
                     !.proofs[fulfill[f].i] = Some(fulfill[f].hashes[fulfill[f].i])]
               /\ fulfill' = [fulfill EXCEPT ![f].i = @ + 1]
          ELSE /\ fulfill' = [fulfill EXCEPT ![f].pc = "failed",
                                             ![f].result = Err("keysign")]
               /\ UNCHANGED wallet
    /\ UNCHANGED btc_chain

\* watcher.rs:705-709: sign()?, broadcast_tx()?, txid()? under one lock.  The
\* bool of sign() is dropped; broadcast records the call of broadcast_tx by
\* what sign() had reported.  The network takes a transaction only if every
\* input is signed for it
FulfillFinish(f) ==
    /\ fulfill[f].pc = "signing"
    /\ fulfill[f].i > Len(fulfill[f].hashes)
    /\ LET finalized == Sign(wallet)
       IN  IF ~finalized.ok
           THEN /\ fulfill' = [fulfill EXCEPT ![f].pc = "failed",
                                              ![f].result = Err(finalized.err)]
                /\ UNCHANGED btc_chain
           ELSE \E accepted \in BOOLEAN :
                   IF accepted /\ Get(finalized.val)
                   THEN /\ btc_chain' = Append(btc_chain,
                              [ outputs |-> Get(wallet.psbt).outputs,
                                built_by |-> Get(wallet.psbt).by, sent_by |-> f ])
                        /\ fulfill' = [fulfill EXCEPT
                              ![f].pc = "done",
                              ![f].broadcast = Some(Get(finalized.val)),
                              ![f].result = Ok(Get(wallet.transaction_details))]
                   ELSE /\ fulfill' = [fulfill EXCEPT
                              ![f].pc = "failed",
                              ![f].broadcast = Some(Get(finalized.val)),
                              ![f].result = Err("Error broadcasting transaction")]
                        /\ UNCHANGED btc_chain
    /\ UNCHANGED wallet

\* invocations made directly on the wallet handle, one output each
FulfillBtcBids(f) ==
    /\ fulfill[f].pc = "idle"
    /\ \E e \in EventIds : FulfillBuild(f, <<e>>)
    /\ UNCHANGED <<btc_chain, relayVars, dispatchVars, watcherVars, curveVars>>

FulfillStep(f) ==
    /\ \/ FulfillHashes(f)
       \/ FulfillKeysign(f)
       \/ FulfillFinish(f)
    /\ UNCHANGED <<relayVars, dispatchVars, curveVars, watcherVars>>

(***************************************************************************)
(* The curve engine (watcher.rs 90-475): PriceVolume and BidAsk.  An f64    *)
(* price is kept as an exact fraction n/d with d > 0; the values of powf    *)
(* and powi, which are irrational in general, are kept in fixed point with  *)
(* denominator PowUnit.  Volumes are u64 and are computed exactly from      *)
(* these (every `as u64` truncates, every round() rounds half up).          *)
(***************************************************************************)
\* watcher.rs:96
DUST_LIMIT == 2500
\* denominator of the fixed-point values of powf and powi
PowUnit == 10000

RECURSIVE Gcd(_, _)
Gcd(a, b) == IF b = 0 THEN a ELSE Gcd(b, a % b)
Abs(x) == IF x < 0 THEN 0 - x ELSE x
\* the fraction n/d in lowest terms
Rat(n, d) == LET g == Gcd(Abs(n), d) IN [n |-> n \div g, d |-> d \div g]
RatAdd(a, b) == Rat(a.n * b.d + b.n * a.d, a.d * b.d)
RatMul(a, b) == Rat(a.n * b.n, a.d * b.d)
RatLeq(a, b) == a.n * b.d <= b.n * a.d
RatLess(a, b) == a.n * b.d < b.n * a.d
\* f64::max
RatMax(a, b) == IF RatLeq(a, b) THEN b ELSE a
\* 1.0 / x for x > 0
RatInv(a) == Rat(a.d, a.n)

\* a * b as quotient and remainder by c, for a, b >= 0 and c > 0, without
\* forming a product beyond 2^31: the multiples of c are taken out of a, and
\* b is taken digit by digit in the largest of the bases 16, 4 and 2 that
\* keeps the partial remainders in range
RECURSIVE MulQuotRem(_, _, _)
MulQuotRem(a, b, c) ==
    IF b = 0 \/ a <= 2147483647 \div b
    THEN [q |-> (a * b) \div c, r |-> (a * b) % c]
    ELSE IF a >= c
    THEN LET m == MulQuotRem(a % c, b, c)
         IN  [q |-> (a \div c) * b + m.q, r |-> m.r]
    ELSE LET base == IF c <= 2147483647 \div 17 THEN 16
                     ELSE IF c <= 2147483647 \div 5 THEN 4 ELSE 2
             h == MulQuotRem(a, b \div base, c)
             s == base * h.r + ((a * (b % base)) % c)
         IN  [q |-> base * h.q + ((a * (b % base)) \div c) + (s \div c),
              r |-> s % c]
\* (a * b / c) as u64
MulDiv(a, b, c) == MulQuotRem(a, b, c).q
\* (a / c * b).round() as u64; 0.0 / 0.0 is NaN, which casts to 0
MulDivRound(a, b, c) ==
    IF c = 0 THEN 0
    ELSE LET m == MulQuotRem(a, b, c)
         IN  IF 2 * m.r >= c THEN m.q + 1 ELSE m.q

\* f64::powi(k) of a fixed-point value, k >= 0
FixMul(x, y) == (x * y + PowUnit \div 2) \div PowUnit
RECURSIVE Powi(_, _)
Powi(x, k) ==
    IF k <= 0 THEN PowUnit
    ELSE IF x = 0 THEN 0
    ELSE LET h == Powi(x, k \div 2)
         IN  IF k % 2 = 0 THEN FixMul(h, h) ELSE FixMul(x, FixMul(h, h))

\* the largest y in 0..PowUnit with y^k <= target, for k >= 1: powi grows with
\* its base, so the search goes to the hundred first and then within it
RootSearch(k, target) ==
    LET Fits(y) == Powi(y, k) <= target
        hundreds == {100 * j : j \in 0..(PowUnit \div 100)}
        coarse == CHOOSE y \in hundreds :
                     Fits(y) /\ (y + 100 > PowUnit \/ ~Fits(y + 100))
        units == {y \in coarse..(coarse + 99) : y <= PowUnit}
    IN  CHOOSE y \in units : Fits(y) /\ (y + 1 \notin units \/ ~Fits(y + 1))
\* f64::powf(1.0 / k) of a fixed-point value x < 1; 1.0 / 0.0 is +inf and
\* x^inf is 0
Powf(x, k) == IF k = 0 THEN 0 ELSE RootSearch(k, x)

\* the volumes of the steps lo..hi added up
RECURSIVE SumRange(_, _, _)
SumRange(pvs, lo, hi) ==
    IF lo > hi THEN 0
    ELSE IF lo = hi THEN pvs[lo].volume
    ELSE LET mid == (lo + hi) \div 2
         IN  SumRange(pvs, lo, mid) + SumRange(pvs, mid + 1, hi)
\* pvs.iter().map(|pv| pv.volume).sum()
SumVolume(pvs) == SumRange(pvs, 1, Len(pvs))

PriceVolume(price, volume) == [price |-> price, volume |-> volume]

\* lines 122-132: the step i (from 0) of the ladder; a negative price is
\* logged and the step left out
StepPrice(center_price, price_width, divisions, i) ==
    RatAdd(center_price, RatMul(Rat(i + 1, 1), RatMul(price_width, Rat(1, divisions))))

\* an older normalisation (lines 196-201): no flattening of dust steps
NormalizeVolumesNoDust(available_volume, price_volumes) ==
    LET current_total_volume == SumVolume(price_volumes)
    IN  IF current_total_volume = 0
        THEN \* every volume is 0, and 0.0 / 0.0 is NaN, which casts to 0
             price_volumes
        ELSE [i \in 1..Len(price_volumes) |->
                [price_volumes[i] EXCEPT
                   !.volume = MulDivRound(@, available_volume, current_total_volume)]]
\* lines 203-233
NormalizeVolumes(available_volume, price_volumes) ==
    LET normalized == NormalizeVolumesNoDust(available_volume, price_volumes)
        dust_trigger == \E i \in 1..Len(normalized) : normalized[i].volume < DUST_LIMIT
        divs == available_volume \div DUST_LIMIT
        kept == IF Len(normalized) < divs THEN Len(normalized) ELSE divs
    IN  IF dust_trigger
        THEN [i \in 1..kept |-> PriceVolume(normalized[i].price, DUST_LIMIT)]
        ELSE normalized

\* lines 142-155: one unit onto (or off) each step in order while the
\* adjustment lasts; a step takes part when its volume allows it
AdjustVolumes(pvs, adjustment) ==
    LET Takes(i) == IF adjustment > 0 THEN pvs[i].volume > 0
                    ELSE adjustment < 0 /\ pvs[i].volume > 1
        Earlier(i) == Cardinality({j \in 1..(i - 1) : Takes(j)})
        Unit == IF adjustment > 0 THEN 1 ELSE 0 - 1
    IN  [i \in 1..Len(pvs) |->
            IF Takes(i) /\ Earlier(i) < Abs(adjustment)
            THEN [pvs[i] EXCEPT !.volume = @ + Unit]
            ELSE pvs[i]]

\* geometric volumes that fall with the step: ratio.powi(i + 1)
RawVolumesFalling(available_volume, center_price, divisions, price_width, scale) ==
    LET ratio == Powf((PowUnit * scale.d) \div scale.n, divisions - 1)
        denom == scale.d * (PowUnit - Powi(ratio, divisions))
        Step(i) == PriceVolume(
                      StepPrice(center_price, price_width, divisions, i),
                      MulDiv(available_volume * scale.n,
                             Powi(ratio, i + 1), denom))
        Valid(pv) == pv.price.n >= 0
    IN  SelectSeq([k \in 1..divisions |-> Step(k - 1)], Valid)
\* lines 112-132: the geometric volumes before normalisation, for scale > 1
RawVolumes(available_volume, center_price, divisions, price_width, scale) ==
    LET ratio == Powf((PowUnit * scale.d) \div scale.n, divisions - 1)
        \* first_term = available_volume * scale / (1 - ratio^divisions)
        denom == scale.d * (PowUnit - Powi(ratio, divisions))
        Step(i) == PriceVolume(
                      StepPrice(center_price, price_width, divisions, i),
                      MulDiv(available_volume * scale.n,
                             Powi(ratio, divisions - i), denom))
        Valid(pv) == pv.price.n >= 0
    IN  SelectSeq([k \in 1..divisions |-> Step(k - 1)], Valid)

\* generate without the dust rules of lines 108-110 and 211-232
PriceVolumeGenerateNoDust(available_volume, center_price, divisions, price_width, scale) ==
    LET raw == RawVolumes(available_volume, center_price, divisions,
                          price_width, scale)
        normalized == NormalizeVolumesNoDust(available_volume, raw)
        adjusted == AdjustVolumes(normalized,
                                  available_volume - SumVolume(normalized))
        Keep(pv) == pv.volume > 0 /\ pv.volume <= available_volume
    IN  SelectSeq(adjusted, Keep)
\* PriceVolume::generate, lines 100-194
PriceVolumeGenerate(available_volume, center_price, divisions, price_width, scale) ==
    IF available_volume < DUST_LIMIT THEN <<>>
    ELSE LET raw == RawVolumes(available_volume, center_price, divisions,
                               price_width, scale)
             normalized == NormalizeVolumes(available_volume, raw)
             adjusted == AdjustVolumes(normalized,
                                       available_volume - SumVolume(normalized))
             Keep(pv) == pv.volume > 0 /\ pv.volume <= available_volume
         IN  SelectSeq(adjusted, Keep)

\* generate_default, lines 295-296
DefaultDivisions == 40
DefaultScale == Rat(20, 1)

NewBidAsk(bids, asks, center_price) ==
    [ bids |-> bids, asks |-> asks, center_price |-> center_price ]
\* lines 263-269
SumBidVolume(ba) == SumVolume(ba.bids)
SumAskVolume(ba) == SumVolume(ba.asks)

\* an ask price that takes the lower of the two
AskPriceLowest(last_exchange_price, min_ask) ==
    IF RatLeq(RatInv(last_exchange_price), min_ask)
    THEN RatInv(last_exchange_price) ELSE min_ask
\* lines 329-332
AskPrice(last_exchange_price, min_ask) ==
    RatMax(RatInv(last_exchange_price), min_ask)

\* a width that takes the bids below the center price
BidWidthBelow(last_exchange_price) == RatMul(last_exchange_price, Rat(-9, 10))
\* line 318
BidWidth(last_exchange_price) == RatMul(last_exchange_price, Rat(9, 10))

\* BidAsk::generate, lines 301-352
BidAskGenerate(available_balance_rdg, pair_balance_btc, last_exchange_price, divisions, scale, min_ask) ==
    LET bids == IF pair_balance_btc > 0
                THEN PriceVolumeGenerate(pair_balance_btc, last_exchange_price,
                        divisions, BidWidth(last_exchange_price),
                        RatMul(scale, Rat(1, 2)))
                ELSE <<>>
        ask_price == AskPrice(last_exchange_price, min_ask)
        asks == IF available_balance_rdg > 0
                THEN PriceVolumeGenerate(available_balance_rdg, ask_price,
                        divisions, RatMul(ask_price, Rat(3, 1)), scale)
                ELSE <<>>
    IN  NewBidAsk(bids, asks, last_exchange_price)

\* lines 285-299
GenerateDefault(available_balance, pair_balance, last_exchange_price, min_ask) ==
    BidAskGenerate(available_balance, pair_balance, last_exchange_price,
                   DefaultDivisions, DefaultScale, min_ask)

\* lines 276-283
Regenerate(ba, price, min_ask) ==
    GenerateDefault(SumAskVolume(ba), SumBidVolume(ba), price, min_ask)

\* an order amount taken as the other asset without the price
OtherAmountUnconverted(remaining_order_amount, price) == remaining_order_amount
\* lines 435-443: (remaining_order_amount as f64 / pv.price) as u64, for the
\* positive prices every ladder of a BidAsk has
OtherAmountRequested(remaining_order_amount, price) ==
    MulDiv(remaining_order_amount, price.d, price.n)

\* lines 422-423 and 424-430: the loop variables before the first step
WalkStart(curve, order_amount) ==
    [ curve |-> curve, remaining_order_amount |-> order_amount,
      fulfilled_amount |-> 0, broke |-> FALSE ]

\* a loop body that forgets to take the partial fill off the step
WalkStepKeepsPartial(st, i) ==
    IF st.broke THEN st
    ELSE LET pv == st.curve[i]
             other_amount_requested ==
                 OtherAmountRequested(st.remaining_order_amount, pv.price)
         IN  IF other_amount_requested >= pv.volume
             THEN [ curve |-> [st.curve EXCEPT ![i].volume = 0],
                    remaining_order_amount |-> st.remaining_order_amount
                        - MulDiv(pv.volume, pv.price.n, pv.price.d),
                    fulfilled_amount |-> st.fulfilled_amount + pv.volume,
                    broke |-> FALSE ]
             ELSE [ curve |-> st.curve,
                    remaining_order_amount |-> 0,
                    fulfilled_amount |-> st.fulfilled_amount + other_amount_requested,
                    broke |-> TRUE ]
\* lines 433-457: the loop body at step i; after the break no step is visited
WalkStep(st, i) ==
    IF st.broke THEN st
    ELSE LET pv == st.curve[i]
             other_amount_requested ==
                 OtherAmountRequested(st.remaining_order_amount, pv.price)
         IN  IF other_amount_requested >= pv.volume
             THEN [ curve |-> [st.curve EXCEPT ![i].volume = 0],
                    remaining_order_amount |-> st.remaining_order_amount
                        - MulDiv(pv.volume, pv.price.n, pv.price.d),
                    fulfilled_amount |-> st.fulfilled_amount + pv.volume,
                    broke |-> FALSE ]
             ELSE [ curve |-> [st.curve EXCEPT
                                 ![i].volume = @ - other_amount_requested],
                    remaining_order_amount |-> 0,
                    fulfilled_amount |-> st.fulfilled_amount + other_amount_requested,
                    broke |-> TRUE ]

\* the loop body at the steps lo..hi in order, up to the break
RECURSIVE WalkRange(_, _, _)
WalkRange(st, lo, hi) ==
    IF lo > hi THEN st
    ELSE IF lo = hi THEN WalkStep(st, lo)
    ELSE LET mid == (lo + hi) \div 2
             first == WalkRange(st, lo, mid)
         IN  IF first.broke THEN first ELSE WalkRange(first, mid + 1, hi)
\* line 433: for pv in updated_curve.iter_mut()
WalkCurve(curve, order_amount) ==
    WalkRange(WalkStart(curve, order_amount), 1, Len(curve))

\* a ladder that keeps the steps the walk emptied
RetainEverything(curve) == curve
\* line 460 and remove_empty
RetainNonEmpty(curve) ==
    LET NonEmpty(pv) == pv.volume > 0 IN SelectSeq(curve, NonEmpty)

\* a dust rule that lets every fill through
OrderFulfillmentAny(order_amount, is_ask, walked) ==
    Some([ order_amount |-> order_amount,
           fulfilled_amount |-> walked.fulfilled_amount,
           updated_curve |-> RetainNonEmpty(walked.curve),
           is_ask_fulfillment_from_external_deposit |-> is_ask ])
\* lines 460-474; event_time, tx_id_ref and destination are passed through
OrderFulfillment(order_amount, is_ask, walked) ==
    IF walked.fulfilled_amount < DUST_LIMIT
    THEN None
    ELSE Some([ order_amount |-> order_amount,
                fulfilled_amount |-> walked.fulfilled_amount,
                updated_curve |-> RetainNonEmpty(walked.curve),
                is_ask_fulfillment_from_external_deposit |-> is_ask ])

\* lines 424-430
TakerSide(ba, is_ask) == IF is_ask THEN ba.asks ELSE ba.bids

\* BidAsk::fulfill_taker_order, lines 414-475
FulfillTakerOrder(ba, order_amount, is_ask) ==
    OrderFulfillment(order_amount, is_ask,
                     WalkCurve(TakerSide(ba, is_ask), order_amount))

(***************************************************************************)
(* DepositWatcher (watcher.rs): interval_fold (1123-1263), its bootstrap    *)
(* and its steady state, and process_requests_new (800-925).  The orders    *)
(* of a tick come from PartyEvents, which reconciles the external events    *)
(* with what the ledger and the Bitcoin wallet already show as fulfilled.   *)
(***************************************************************************)
\* watcher.rs:817 cutoff_time = current_time_millis_i64() - 30_000
CutoffSecs == 30
\* latest time the clock reaches
MaxNowSecs == 90

EventKinds == {"deposit", "withdrawal", "withdrawal_no_address"}

\* the tick in progress; crashed records whether the process ever crashed
\* between a submission of a tick and the config write of that tick.  About
\* the last tick that began: writes counts its calls of insert_update_json
\* for deposit_watcher_config, keygen tells whether it initiated a key
\* generation, processed whether its process_requests_new returned Ok,
\* no_config whether it found no stored config, rdg_failed whether a call
\* made for its RDG transaction failed, btc_due whether its orders held a
\* BTC output, btc_called whether it called fulfill_btc_bids, migrated
\* whether its fix_historical_errors called insert_update_json, reset
\* whether it regenerated the curve for the reset flag.  balance is the
\* ledger balance a tick read for the address of its key: it is kept while
\* process_requests_new makes its transactions, and after a tick that ended
\* for want of a balance.  rounds tells of a tick that initiated a key
\* generation how the two rounds ended, the public key of the signing proof
\* and whether the genesis funding succeeded
IdleWatcher == [ pc |-> "idle", rdg_outputs |-> <<>>, btc_outputs |-> <<>>,
                 cfg |-> None, alloc |-> None, crashed |-> FALSE,
                 writes |-> 0, keygen |-> FALSE, processed |-> FALSE,
                 no_config |-> FALSE, rdg_failed |-> FALSE,
                 btc_due |-> FALSE, btc_called |-> FALSE, migrated |-> FALSE,
                 reset |-> FALSE, balance |-> None, rounds |-> None ]
EndTick(w) == [IdleWatcher EXCEPT !.crashed = w.crashed, !.writes = w.writes,
                                  !.keygen = w.keygen,
                                  !.rdg_failed = w.rdg_failed,
                                  !.btc_due = w.btc_due,
                                  !.btc_called = w.btc_called,
                                  !.migrated = w.migrated,
                                  !.reset = w.reset]
\* interval_fold returns after this many writes
TickEnds(writes, keygen) ==
    [IdleWatcher EXCEPT !.crashed = watcher.crashed, !.writes = writes,
                        !.keygen = keygen]

\* the public keys a multiparty signing proof can carry
ProofKeys == {"mp_key_1", "mp_key_2"}
\* the stored config (lines 478-485): the high-water mark, the reset flag,
\* the number of its deposit_allocations and of the first of them the key,
\* the allocation and the balances; its bid_ask is the variable bid_ask
StoredConfig(last_btc_timestamp, balance_btc, balance_rdg) ==
    [ schema |-> "current",
      last_btc_timestamp |-> last_btc_timestamp,
      allocations |-> 1, key |-> "mp_key_1", allocation |-> Rat(1, 1),
      balance_btc |-> balance_btc, balance_rdg |-> balance_rdg,
      ask_bid_code_reset |-> None ]
\* a first config without an allocation
FirstConfigNoAllocation(pk) ==
    [StoredConfig(0, 0, 0) EXCEPT !.key = pk, !.allocations = 0]
\* lines 1241-1253: the config of a bootstrap whose signing proof carries pk
FirstConfig(pk) == [StoredConfig(0, 0, 0) EXCEPT !.key = pk]
\* a record an earlier release stored (lines 504-511): it does not
\* deserialize as DepositWatcherConfig
BrokenConfig(cfg) == [cfg EXCEPT !.schema = "broken"]

\* relay.node_config: the number of seeds, and of its network what
\* is_local_debug() answers (lines 1127 and 1207)
NodeConfig(seeds, is_local_debug) ==
    [ seeds |-> seeds, is_local_debug |-> is_local_debug ]
IsLocalDebug(nc) == nc.is_local_debug
\* lines 1207-1211
MinSeeds(nc) == IF IsLocalDebug(nc) THEN 3 ELSE 4
\* line 566, 0.00222222222, taken as 1/450
BTC_RDG_STARTING == Rat(1, 450)
\* lines 1053-1066: the spot price of BTC in USD over 100, or the fallback
StartingCenterPrices == {Rat(300, 1), BTC_RDG_STARTING}

\* a filter_map that takes an entry without a volume as an empty step
FilterMapPriceVolumeOrZero(entries) ==
    LET Priced(v) == IsSome(v.price)
        kept == SelectSeq(entries, Priced)
    IN  [i \in 1..Len(kept) |->
            PriceVolume(Get(kept[i].price), UnwrapOr(kept[i].volume, 0))]
\* lines 1079-1100: the PriceVolumeBroken entries that have a price and a
\* volume, as PriceVolume
FilterMapPriceVolume(entries) ==
    LET Complete(v) == IsSome(v.price) /\ IsSome(v.volume)
        kept == SelectSeq(entries, Complete)
    IN  [i \in 1..Len(kept) |->
            PriceVolume(Get(kept[i].price), Get(kept[i].volume))]

\* fix_historical_errors (1068-1114) on a record that only loads as
\* DepositWatcherConfigBroken: it is stored again in the current schema,
\* with a fresh center price, last_btc_timestamp 0 and no reset flag
FixHistoricalErrors(cfg, ba, center_price, stored) ==
    [ config |-> IF stored
                 THEN Some([StoredConfig(0, Get(cfg).balance_btc,
                                         Get(cfg).balance_rdg)
                              EXCEPT !.allocations = Get(cfg).allocations,
                                     !.key = Get(cfg).key,
                                     !.allocation = Get(cfg).allocation])
                 ELSE cfg,
      bid_ask |-> IF stored
                  THEN NewBidAsk(FilterMapPriceVolume(ba.bids),
                                 FilterMapPriceVolume(ba.asks), center_price)
                  ELSE ba,
      writes |-> 1 ]

\* the events a sequence of transactions, each a sequence of outputs, pays
PaidBy(txs) == {e \in EventIds : \E k \in 1..Len(txs) :
                   \E j \in 1..Len(txs[k]) : txs[k][j] = e}
BtcOutputsOf(chain) == [k \in 1..Len(chain) |-> chain[k].outputs]

\* PartyEvents::historical_initialize(..).orders(): one order per external
\* event that neither chain shows as fulfilled yet
PartyOrders ==
    LET Open(e) ==
            /\ events[e] # None
            /\ IF Get(events[e]).kind = "deposit"
               THEN e \notin PaidBy(ledger)
               ELSE e \notin PaidBy(BtcOutputsOf(btc_chain))
        ids == SelectSeq([e \in EventIds |-> e], Open)
    IN  [k \in 1..Len(ids) |->
            [ tx_id_ref |-> Some(ids[k]),
              is_ask_fulfillment_from_external_deposit |->
                  Get(events[ids[k]]).kind = "deposit",
              btc_address_ok |-> Get(events[ids[k]]).kind # "withdrawal_no_address",
              event_time |-> Get(events[ids[k]]).time ]]

\* orders taken whatever their age
WithoutCutoff(orders, cutoff_time) == orders
\* lines 855-857
WithCutoff(orders, cutoff_time) ==
    LET Settled(o) == o.event_time < cutoff_time
    IN  SelectSeq(orders, Settled)

\* a fold that adds the output of every order twice
RdgOutputsTwice(with_cutoff) ==
    LET Ask(o) == o.is_ask_fulfillment_from_external_deposit /\ IsSome(o.tx_id_ref)
        asks == SelectSeq(with_cutoff, Ask)
    IN  [k \in 1..2 * Len(asks) |-> Get(asks[(k + 1) \div 2].tx_id_ref)]
\* lines 871-876: one output per ask fulfillment, tagged with its tx id
RdgOutputs(with_cutoff) ==
    LET Ask(o) == o.is_ask_fulfillment_from_external_deposit /\ IsSome(o.tx_id_ref)
        asks == SelectSeq(with_cutoff, Ask)
    IN  [k \in 1..Len(asks) |-> Get(asks[k].tx_id_ref)]

\* lines 884-894: one output per bid with a Bitcoin destination
BtcOutputs(with_cutoff) ==
    LET Bid(o) == ~o.is_ask_fulfillment_from_external_deposit /\ o.btc_address_ok
        bids == SelectSeq(with_cutoff, Bid)
    IN  [k \in 1..Len(bids) |-> Get(bids[k].tx_id_ref)]

\* lines 1204-1258, no config yet: with enough seeds a key generation and a
\* signing round, and when both succeed the genesis funding, whose error is
\* logged, and the first config
Bootstrap ==
    IF node_config.seeds <= MinSeeds(node_config)
    THEN /\ watcher' = [TickEnds(0, FALSE) EXCEPT !.no_config = TRUE]
         /\ UNCHANGED <<config, bid_ask>>
    ELSE \E keygen_ok, keysign_ok \in BOOLEAN :
            IF keygen_ok /\ keysign_ok
            THEN \E pk \in ProofKeys, funding_ok, stored \in BOOLEAN,
                    center_price \in StartingCenterPrices :
                    /\ watcher' = [TickEnds(1, TRUE) EXCEPT
                          !.no_config = TRUE,
                          !.rounds = Some([ keygen |-> TRUE, keysign |-> TRUE,
                                            public_key |-> Some(pk),
                                            genesis_funding |-> funding_ok ])]
                    /\ IF stored
                       THEN /\ config' = Some(FirstConfig(pk))
                            /\ bid_ask' = NewBidAsk(<<>>, <<>>, center_price)
                       ELSE UNCHANGED <<config, bid_ask>>
            ELSE /\ watcher' = [TickEnds(0, TRUE) EXCEPT
                       !.no_config = TRUE,
                       !.rounds = Some([ keygen |-> keygen_ok, keysign |-> FALSE,
                                         public_key |-> None,
                                         genesis_funding |-> FALSE ])]
                 /\ UNCHANGED <<config, bid_ask>>

\* lines 1186-1197 and process_requests_new lines 800-876, with the config
\* cfg, the curve ba, the writes made so far and whether the record was
\* migrated and the curve reset: the orders and the outputs of both
\* transactions
\* an allocation made for the key of a fresh signing proof
UpdatedAllocationNewKey(cfg, balance_btc, balance_rdg) ==
    [ key |-> CHOOSE pk \in ProofKeys : pk # cfg.key,
      allocation |-> cfg.allocation,
      balance_btc |-> balance_btc, balance_rdg |-> balance_rdg ]
\* lines 900-902: the allocation read, with the balances of this tick
UpdatedAllocation(cfg, balance_btc, balance_rdg) ==
    [ key |-> cfg.key, allocation |-> cfg.allocation,
      balance_btc |-> balance_btc, balance_rdg |-> balance_rdg ]

ProcessRequests(cfg, ba, writes, migrated, reset, balance) ==
    /\ config' = Some(cfg)
    /\ bid_ask' = ba
    /\ \E events_ok, utxos_ok \in BOOLEAN :
          LET with_cutoff == WithCutoff(PartyOrders, now - CutoffSecs)
              btc_due == BtcOutputs(with_cutoff) # <<>>
          IN  watcher' =
                 IF ~events_ok
                 THEN [TickEnds(writes, FALSE) EXCEPT !.migrated = migrated,
                                                      !.reset = reset]
                 ELSE IF ~utxos_ok
                 THEN \* query_utxo_address or with_utxos fails, 834 and 869
                      [TickEnds(writes, FALSE) EXCEPT !.rdg_failed = TRUE,
                                                      !.btc_due = btc_due,
                                                      !.migrated = migrated,
                                                      !.reset = reset]
                 ELSE [watcher EXCEPT
                         !.pc = "rdg",
                         !.cfg = Some(cfg),
                         !.alloc = Some(UpdatedAllocation(cfg, Len(btc_chain),
                                                          Len(ledger))),
                         !.rdg_outputs = RdgOutputs(with_cutoff),
                         !.btc_outputs = BtcOutputs(with_cutoff),
                         !.writes = writes,
                         !.keygen = FALSE,
                         !.processed = FALSE,
                         !.no_config = FALSE,
                         !.rdg_failed = FALSE,
                         !.btc_due = btc_due,
                         !.btc_called = FALSE,
                         !.migrated = migrated,
                         !.reset = reset,
                         !.balance = Some(balance),
                         !.rounds = None]

\* transaction_store.get_balance(&d.key.address()?) (line 1175): no balance, an
\* empty one or a positive one
LedgerBalances == {None, Some(0), Some(1)}
\* a test that lets an empty balance through
NonNegativeBalance(balance) == IsSome(balance) /\ Get(balance) >= 0
\* line 1176: balance.map(|x| x > 0).unwrap_or(false)
PositiveBalance(balance) == IsSome(balance) /\ Get(balance) > 0

\* a reset that leaves the flag as it is
KeepReset(cfg) == cfg
\* line 1183: cfg.ask_bid_code_reset = Some(!reset_condition)
ClearReset(cfg) == [cfg EXCEPT !.ask_bid_code_reset = Some(FALSE)]

\* lines 1147-1200, with the config cfg and the curve ba: with a positive
\* ledger balance the curve reset when the flag asks for it, stored at
\* once, and then process_requests_new
SteadyState(cfg, ba, writes, migrated) ==
    \E balance \in LedgerBalances :
       IF ~PositiveBalance(balance)
       THEN /\ watcher' = [TickEnds(writes, FALSE) EXCEPT !.migrated = migrated,
                                                         !.balance = Some(balance)]
            /\ config' = Some(cfg)
            /\ bid_ask' = ba
       ELSE IF cfg.ask_bid_code_reset = Some(TRUE)
       THEN \E stored \in BOOLEAN, center_price \in StartingCenterPrices :
               IF stored
               THEN ProcessRequests(
                       ClearReset(cfg),
                       Regenerate(ba, center_price, RatInv(center_price)),
                       writes + 1, migrated, TRUE, balance)
               ELSE \* insert_update_json fails, line 1184
                    /\ watcher' = [TickEnds(writes + 1, FALSE)
                                     EXCEPT !.migrated = migrated,
                                            !.reset = TRUE]
                    /\ config' = Some(cfg)
                    /\ bid_ask' = ba
       ELSE ProcessRequests(cfg, ba, writes, migrated, FALSE, balance)

\* interval_fold (1123-1263) up to the outputs of process_requests_new
IntervalFold ==
    /\ watcher.pc = "idle"
    /\ IF IsLocalDebug(node_config)
       THEN /\ watcher' = TickEnds(0, FALSE)
            /\ UNCHANGED <<config, bid_ask>>
       ELSE IF config = None
       THEN Bootstrap
       ELSE IF Get(config).schema = "broken"
       THEN \E stored \in BOOLEAN, center_price \in StartingCenterPrices :
               LET fixed == FixHistoricalErrors(config, bid_ask, center_price,
                                                stored)
               IN  IF stored
                   THEN SteadyState(Get(fixed.config), fixed.bid_ask,
                                    fixed.writes, TRUE)
                   ELSE \* get_deposit_config fails, line 1146
                        /\ watcher' = [TickEnds(fixed.writes, FALSE)
                                         EXCEPT !.migrated = TRUE]
                        /\ UNCHANGED <<config, bid_ask>>
       ELSE SteadyState(Get(config), bid_ask, 0, FALSE)
    /\ UNCHANGED <<relayVars, dispatchVars, node_config, walletVars, ledger,
                   events, now, curve_op, curve_changes>>

\* lines 878-882: build, sign and submit the RDG transaction when it has
\* outputs; an error of build()? ends process_requests_new, an error of
\* send_ask_fulfillment_transaction is logged and the tick goes on
SendAskFulfillmentTransaction ==
    /\ watcher.pc = "rdg"
    /\ IF watcher.rdg_outputs = <<>>
       THEN /\ watcher' = [watcher EXCEPT !.pc = "btc"]
            /\ UNCHANGED ledger
       ELSE \E built, accepted \in BOOLEAN :
               IF ~built
               THEN /\ watcher' = [EndTick(watcher) EXCEPT !.rdg_failed = TRUE]
                    /\ UNCHANGED ledger
               ELSE IF accepted
               THEN /\ ledger' = Append(ledger, watcher.rdg_outputs)
                    /\ watcher' = [watcher EXCEPT !.pc = "btc"]
               ELSE /\ watcher' = [watcher EXCEPT !.pc = "btc",
                                                  !.rdg_failed = TRUE]
                    /\ UNCHANGED ledger
    /\ UNCHANGED <<relayVars, dispatchVars, curveVars, node_config, walletVars, events, now, config>>

\* lines 896-899: fulfill_btc_bids when there are BTC outputs
FulfillBtcBidsCall ==
    /\ watcher.pc = "btc"
    /\ IF watcher.btc_outputs = <<>>
       THEN /\ watcher' = [watcher EXCEPT !.pc = "write"]
            /\ UNCHANGED <<wallet, fulfill>>
       ELSE /\ fulfill[1].pc = "idle"
            /\ FulfillBuild(1, watcher.btc_outputs)
            /\ watcher' = [watcher EXCEPT !.pc = "btc_wait",
                                          !.btc_called = TRUE]
    /\ UNCHANGED <<relayVars, dispatchVars, curveVars, node_config, btc_chain, ledger, events, now, config>>

\* fulfill_btc_bids returned; its error is logged and the tick goes on
FulfillBtcBidsReturn ==
    /\ watcher.pc = "btc_wait"
    /\ fulfill[1].pc \in {"done", "failed"}
    /\ watcher' = [watcher EXCEPT !.pc = "write"]
    /\ fulfill' = [fulfill EXCEPT ![1] = IdleFulfill]
    /\ UNCHANGED <<relayVars, dispatchVars, curveVars, node_config, wallet, btc_chain,
                   ledger, events, now, config>>

\* lines 900-908 and 1186-1194: the CurveUpdateResult keeps the timestamp it
\* was given and carries the balances read at the start; one store write
WriteConfig ==
    /\ watcher.pc = "write"
    /\ \E stored \in BOOLEAN :
          config' = IF stored
                    THEN Some([StoredConfig(Get(watcher.cfg).last_btc_timestamp,
                                            Get(watcher.alloc).balance_btc,
                                            Get(watcher.alloc).balance_rdg)
                                 EXCEPT !.ask_bid_code_reset =
                                          Get(watcher.cfg).ask_bid_code_reset,
                                        !.key = Get(watcher.alloc).key,
                                        !.allocation =
                                          Get(watcher.alloc).allocation])
                    ELSE config
    /\ watcher' = [EndTick(watcher) EXCEPT !.writes = watcher.writes + 1,
                                           !.processed = TRUE]
    /\ UNCHANGED <<relayVars, dispatchVars, curveVars, node_config, walletVars, ledger, events, now>>

\* the process dies in the middle of a tick and is restarted: the tick and
\* the wallet in memory are gone, the store and both chains stay
Crash ==
    /\ watcher.pc # "idle"
    /\ watcher' = [EndTick(watcher) EXCEPT
          !.rdg_failed = FALSE,
          !.btc_due = FALSE,
          !.crashed = \/ watcher.crashed
                      \/ Len(ledger) > Get(watcher.alloc).balance_rdg
                      \/ Len(btc_chain) > Get(watcher.alloc).balance_btc]
    /\ wallet' = NewWallet
    /\ fulfill' = [f \in FulfillIds |-> IdleFulfill]
    /\ UNCHANGED <<relayVars, dispatchVars, curveVars, node_config, btc_chain, ledger, events, now, config>>

\* a confirmed BTC deposit or an RDG withdrawal order appears
ExternalEvent(e) ==
    /\ events[e] = None
    /\ \A d \in EventIds : d < e => events[d] # None
    /\ \E kind \in EventKinds :
          events' = [events EXCEPT ![e] = Some([kind |-> kind, time |-> now])]
    /\ UNCHANGED <<relayVars, dispatchVars, curveVars, node_config, walletVars, ledger, now, config, watcher>>

Clock ==
    /\ now < MaxNowSecs
    /\ now' = now + TickSecs
    /\ UNCHANGED <<relayVars, dispatchVars, curveVars, node_config, walletVars, ledger, events, config, watcher>>

(***************************************************************************)
(* Callers of the curve engine.  One caller holds a BidAsk: it makes it     *)
(* with BidAsk::generate or reads it from the stored config, asks for       *)
(* fulfillments, adopts an updated curve and regenerates.  Another calls    *)
(* PriceVolume::generate on its own.  curve_op keeps the arguments and the  *)
(* result of the last call.                                                 *)
(***************************************************************************)
\* replacements of the caller's BidAsk (adopted fulfillments, regenerations)
MaxCurveChanges == 2
\* PriceVolume::generate is called on the volumes 0, 1300, .. up to this many
\* steps of 1300, and on three large ones
MaxVolumeSteps == 6

NoCurveOp == [ op |-> "none" ]

RdgBalances == {0, 1300, 1000000}
BtcBalances == {0, 5000, 50000}
CenterPrices == {Rat(300, 1)}
MinAsks == {Rat(1, 1000), Rat(1, 100)}
\* divisions and scale: those of generate_default and a coarser ladder
GenParams == { [ divisions |-> DefaultDivisions, scale |-> DefaultScale ],
               [ divisions |-> 10, scale |-> Rat(5, 1) ] }
OrderAmounts == {8, 20000, 1000000}

\* a BidAsk read from the stored config rather than generated
StoredCurves ==
    { NewBidAsk(<<>>,
                << PriceVolume(Rat(35, 10000), 30000),
                   PriceVolume(Rat(40, 10000), 40000),
                   PriceVolume(Rat(45, 10000), 800000) >>,
                Rat(300, 1)),
      NewBidAsk(<<>>,
                << PriceVolume(Rat(35, 10000), 30000),
                   PriceVolume(Rat(5, 100), 800000) >>,
                Rat(300, 1)) }

LadderVolumes == {1300 * k : k \in 0..MaxVolumeSteps} \cup {120000, 500000, 1000000}
LadderParams == { [ divisions |-> 1, scale |-> Rat(4, 1) ],
                  [ divisions |-> 2, scale |-> Rat(4, 1) ],
                  [ divisions |-> 3, scale |-> Rat(4, 1) ],
                  [ divisions |-> 10, scale |-> Rat(5, 2) ],
                  [ divisions |-> DefaultDivisions, scale |-> DefaultScale ] }
\* center price and price width
LadderPrices == { [ center_price |-> Rat(1, 1), price_width |-> Rat(3, 1) ],
                  [ center_price |-> Rat(300, 1), price_width |-> Rat(270, 1) ],
                  [ center_price |-> Rat(1, 1), price_width |-> Rat(-3, 2) ] }

\* a call of PriceVolume::generate
PriceVolumeGenerateCall ==
    /\ curve_op = NoCurveOp
    /\ \E v \in LadderVolumes, g \in LadderParams, p \in LadderPrices :
          curve_op' = [ op |-> "price_volume_generate",
                        args |-> [ available_volume |-> v,
                                   center_price |-> p.center_price,
                                   divisions |-> g.divisions,
                                   price_width |-> p.price_width,
                                   scale |-> g.scale ],
                        result |-> PriceVolumeGenerate(v, p.center_price,
                                      g.divisions, p.price_width, g.scale) ]
    /\ UNCHANGED <<relayVars, dispatchVars, walletVars, watcherVars,
                   bid_ask, curve_changes>>

\* the caller makes its BidAsk with BidAsk::generate
GenerateCall ==
    /\ curve_op = NoCurveOp
    /\ \E a \in RdgBalances, b \in BtcBalances, p \in CenterPrices,
          g \in GenParams, m \in MinAsks :
          /\ bid_ask' = BidAskGenerate(a, b, p, g.divisions, g.scale, m)
          /\ curve_op' = [ op |-> "generate",
                           args |-> [ available_balance_rdg |-> a,
                                      pair_balance_btc |-> b,
                                      last_exchange_price |-> p,
                                      divisions |-> g.divisions,
                                      scale |-> g.scale, min_ask |-> m ],
                           before |-> bid_ask ]
    /\ UNCHANGED <<relayVars, dispatchVars, walletVars, watcherVars, curve_changes>>

\* the caller reads its BidAsk from the stored config
LoadCurve ==
    /\ curve_op = NoCurveOp
    /\ \E ba \in StoredCurves :
          /\ bid_ask' = ba
          /\ curve_op' = [ op |-> "load", before |-> bid_ask ]
    /\ UNCHANGED <<relayVars, dispatchVars, walletVars, watcherVars, curve_changes>>

\* bid_ask = bid_ask.regenerate(price, min_ask)
RegenerateCall ==
    /\ curve_op # NoCurveOp
    /\ curve_changes < MaxCurveChanges
    /\ \E p \in CenterPrices, m \in MinAsks :
          /\ bid_ask' = Regenerate(bid_ask, p, m)
          /\ curve_op' = [ op |-> "regenerate",
                           args |-> [ last_exchange_price |-> p, min_ask |-> m ],
                           before |-> bid_ask ]
    /\ curve_changes' = curve_changes + 1
    /\ UNCHANGED <<relayVars, dispatchVars, walletVars, watcherVars>>

\* bid_ask.fulfill_taker_order(order_amount, is_ask, ..): the BidAsk itself
\* is borrowed and stays as it is; walked is the ladder when the loop ends
FulfillTakerOrderCall ==
    /\ curve_op # NoCurveOp
    /\ \E order_amount \in OrderAmounts, is_ask \in BOOLEAN :
          curve_op' = [ op |-> "fulfill_taker_order",
                        args |-> [ order_amount |-> order_amount, is_ask |-> is_ask ],
                        before |-> bid_ask,
                        walked |-> WalkCurve(TakerSide(bid_ask, is_ask),
                                             order_amount).curve,
                        result |-> FulfillTakerOrder(bid_ask, order_amount, is_ask) ]
    /\ UNCHANGED <<relayVars, dispatchVars, walletVars, watcherVars,
                   bid_ask, curve_changes>>

\* the caller adopts the updated curve of the fulfillment it got
ApplyFulfillment ==
    /\ curve_op.op = "fulfill_taker_order"
    /\ IsSome(curve_op.result)
    /\ curve_changes < MaxCurveChanges
    /\ bid_ask' = IF curve_op.args.is_ask
                  THEN [bid_ask EXCEPT !.asks = Get(curve_op.result).updated_curve]
                  ELSE [bid_ask EXCEPT !.bids = Get(curve_op.result).updated_curve]
    /\ curve_op' = [ op |-> "apply", before |-> bid_ask ]
    /\ curve_changes' = curve_changes + 1
    /\ UNCHANGED <<relayVars, dispatchVars, walletVars, watcherVars>>

\* lines 271-274: some step of either side has no volume left
VolumeEmpty(ba) ==
    \/ \E i \in DOMAIN ba.bids : ba.bids[i].volume = 0
    \/ \E i \in DOMAIN ba.asks : ba.asks[i].volume = 0

\* the transactions of the ledger sent to the party address: the RDG amount
\* sent, whether the store already lists the transaction as used for a
\* withdrawal, and whether its first input names a BTC address
WithdrawalAmounts == {20000, 1000000}
WithdrawalTxs ==
    { [ amount_rdg |-> a, used |-> FALSE, btc_address |-> TRUE ] : a \in WithdrawalAmounts }
        \cup { [ amount_rdg |-> 1000000, used |-> TRUE, btc_address |-> TRUE ],
               [ amount_rdg |-> 1000000, used |-> FALSE, btc_address |-> FALSE ] }
MaxWithdrawals == 2
WithdrawalBatches ==
    UNION { [1..n -> WithdrawalTxs] : n \in 1..MaxWithdrawals }

\* lines 759-790: one turn of the loop over the transactions; the order is
\* filled against bid_ask_latest, which the loop replaces only by a
\* regenerated curve when some step is empty
WithdrawalStep(acc, t, min_ask) ==
    IF ~acc.ok \/ t.used THEN acc
    ELSE IF ~t.btc_address THEN Err("Missing destination address")
    ELSE IF t.amount_rdg > 0
    THEN LET w == Get(acc.val)
             fulfillment == FulfillTakerOrder(w.updated_bidask, t.amount_rdg, FALSE)
         IN  IF fulfillment = None THEN acc
             ELSE Ok([ outputs |-> Append(w.outputs, Get(fulfillment).fulfilled_amount),
                       used_tx |-> Append(w.used_tx, t),
                       updated_bidask |->
                           IF VolumeEmpty(w.updated_bidask)
                           THEN Regenerate(w.updated_bidask,
                                           RatMul(Rat(Get(fulfillment).fulfilled_amount,
                                                      Get(fulfillment).order_amount),
                                                  Rat(98, 100)),
                                           min_ask)
                           ELSE w.updated_bidask ])
    ELSE acc

\* lines 746-797
RECURSIVE GetRdgWithdrawalsBidsFrom(_, _, _, _)
GetRdgWithdrawalsBidsFrom(acc, txs, i, min_ask) ==
    IF i > Len(txs) THEN acc
    ELSE GetRdgWithdrawalsBidsFrom(WithdrawalStep(acc, txs[i], min_ask), txs, i + 1, min_ask)
GetRdgWithdrawalsBids(ba, txs, min_ask) ==
    GetRdgWithdrawalsBidsFrom(
        Ok([ outputs |-> <<>>, used_tx |-> <<>>, updated_bidask |-> ba ]), txs, 1, min_ask)

\* the watcher asks for the withdrawals of the curve it holds, once for
\* each curve it comes to hold
GetRdgWithdrawalsBidsCall ==
    /\ curve_op.op \in {"generate", "load", "regenerate", "apply"}
    /\ \E txs \in WithdrawalBatches, min_ask \in MinAsks :
          curve_op' = [ op |-> "get_rdg_withdrawals_bids",
                        args |-> [ txs |-> txs, min_ask |-> min_ask ],
                        before |-> bid_ask,
                        result |-> GetRdgWithdrawalsBids(bid_ask, txs, min_ask) ]
    /\ UNCHANGED <<relayVars, dispatchVars, walletVars, watcherVars,
                   bid_ask, curve_changes>>

(***************************************************************************)
(* Initial state and specifications                                        *)
(***************************************************************************)
InitRelay ==
    /\ calls = [c \in CallIds |-> IdleCall]
    /\ chans = <<>>
    /\ peer_message_tx = <<>>
    /\ peer_message_rx = <<>>
    /\ transaction = <<>>
    /\ txLog = <<>>
    /\ rxLog = <<>>
    /\ tmLog = <<>>
    /\ bcast = IdleBcast

InitDispatch ==
    /\ handlers = <<>>
    /\ rxLoop = "running"
    /\ peer_store = {"pkB"}
    /\ last_seen = {}
    /\ about_tasks = <<>>
    /\ discovery = NoDiscovery
    /\ observation = NoObservations

InitWallet ==
    /\ wallet = NewWallet
    /\ fulfill = [f \in FulfillIds |-> IdleFulfill]
    /\ btc_chain = <<>>

\* the clock has been running for a while when the watcher starts
InitWatcher ==
    /\ ledger = <<>>
    /\ events = [e \in EventIds |-> None]
    /\ now = TickSecs
    /\ config = Some(StoredConfig(0, 0, 0))
    /\ watcher = IdleWatcher
    /\ node_config = NodeConfig(5, FALSE)

\* the curve of a fresh config (watcher.rs:1250): no bids and no asks
InitCurve ==
    /\ bid_ask = NewBidAsk(<<>>, <<>>, Rat(300, 1))
    /\ curve_op = NoCurveOp
    /\ curve_changes = 0

Init == InitRelay /\ InitDispatch /\ InitWallet /\ InitWatcher /\ InitCurve

\* concurrent send_message_sync / send_message callers and the transport
NextSend ==
    \/ \E c \in CallIds : SendMessageSync(c)
    \/ \E c \in CallIds : SendMessageSyncReturn(c)
    \/ TransportReply
    \/ TransportDrop
    \/ Advance

SpecSend == Init /\ [][NextSend]_vars

\* one broadcast, its spawned tasks and the transport
NextBroadcast ==
    \/ Broadcast
    \/ \E i \in DOMAIN calls : SendMessageSyncStatic(i)
    \/ \E i \in DOMAIN calls : SendMessageSyncStaticReturn(i)
    \/ BroadcastJoin
    \/ TransportReply
    \/ TransportDrop
    \/ Advance

SpecBroadcast == Init /\ [][NextBroadcast]_vars

\* concurrent submit_transaction callers and the transaction processor
NextSubmit ==
    \/ \E c \in CallIds : SubmitTransaction(c)
    \/ \E c \in CallIds : SubmitTransactionReturn(c)
    \/ ProcessorReply
    \/ ProcessorDrop
    \/ Advance

SpecSubmit == Init /\ [][NextSubmit]_vars

\* inbound callers, the dispatcher and the transaction processor
NextDispatch ==
    \/ \E c \in InboundIds : ReceiveMessageSync(c)
    \/ \E c \in InboundIds : ReceiveMessageSyncReturn(c)
    \/ RequestResponseRest
    \/ \E h \in DOMAIN handlers : RequestResponseResume(h)
    \/ \E h \in DOMAIN handlers : AfterReply(h)
    \/ HandleAboutPeerResponse
    \/ ProcessorReply
    \/ ProcessorDrop
    \/ Advance

SpecDispatch == Init /\ [][NextDispatch]_vars

\* the dispatcher with every caller posting an inbound request, one after
\* the other.  The runtime polls a task that can make progress: the loop
\* takes a queued PeerMessage, a handler whose await is over resumes, a
\* spawned query returns.
NextDispatchFair ==
    \/ \E c \in CallIds : ReceiveMessageSync(c)
    \/ \E c \in CallIds : ReceiveMessageSyncReturn(c)
    \/ RequestResponseRest
    \/ \E h \in DOMAIN handlers : RequestResponseResume(h)
    \/ \E h \in DOMAIN handlers : AfterReply(h)
    \/ HandleAboutPeerResponse
    \/ ProcessorReply
    \/ ProcessorDrop
    \/ Advance

DispatchFairness ==
    /\ WF_vars(RequestResponseRest)
    /\ WF_vars(\E h \in DOMAIN handlers : RequestResponseResume(h))
    /\ WF_vars(\E h \in DOMAIN handlers : AfterReply(h))
    /\ WF_vars(HandleAboutPeerResponse)

SpecDispatchFair == Init /\ [][NextDispatchFair]_vars /\ DispatchFairness

\* concurrent invocations of fulfill_btc_bids on one wallet handle
NextFulfill ==
    \/ \E f \in FulfillIds : FulfillBtcBids(f)
    \/ \E f \in FulfillIds : FulfillStep(f)

SpecFulfill == Init /\ [][NextFulfill]_vars

\* the watcher's ticks, its crashes and the outside world
NextWatcher ==
    \/ IntervalFold
    \/ SendAskFulfillmentTransaction
    \/ FulfillBtcBidsCall
    \/ FulfillStep(1)
    \/ FulfillBtcBidsReturn
    \/ WriteConfig
    \/ Crash
    \/ \E e \in EventIds : ExternalEvent(e)
    \/ Clock

SpecWatcher == Init /\ [][NextWatcher]_vars

\* calls of PriceVolume::generate
NextLadder == PriceVolumeGenerateCall

SpecLadder == Init /\ [][NextLadder]_vars

\* one caller of BidAsk
NextCurve ==
    \/ GenerateCall
    \/ LoadCurve
    \/ RegenerateCall
    \/ FulfillTakerOrderCall
    \/ ApplyFulfillment

SpecCurve == Init /\ [][NextCurve]_vars

\* the watcher's withdrawals from the curve it generated or loaded
NextWithdrawals ==
    \/ GenerateCall
    \/ LoadCurve
    \/ GetRdgWithdrawalsBidsCall

SpecWithdrawals == Init /\ [][NextWithdrawals]_vars

\* most seeds a node is configured with
MaxSeeds == 5
\* most entries of a ladder of the legacy schema
MaxLegacySteps == 3
\* the entries of a PriceVolumeBroken ladder (lines 491-494)
PriceVolumeBroken ==
    { [ price |-> Some(Rat(35, 10000)), volume |-> Some(30000) ],
      [ price |-> Some(Rat(40, 10000)), volume |-> Some(40000) ],
      [ price |-> None, volume |-> Some(30000) ],
      [ price |-> Some(Rat(35, 10000)), volume |-> None ] }
\* the curves that load as BidAskBroken (496-501) and not as BidAsk: some
\* entry lacks its price or its volume
BidAskBroken ==
    LET Ladders == UNION { [1..n -> PriceVolumeBroken] : n \in 0..MaxLegacySteps }
        Lacking(l) == \E i \in 1..Len(l) : l[i].price = None \/ l[i].volume = None
    IN  { NewBidAsk(bids, <<>>, Rat(300, 1)) :
             bids \in { l \in Ladders : Lacking(l) } }
          \cup { NewBidAsk(<<>>, asks, Rat(300, 1)) :
             asks \in { l \in Ladders : Lacking(l) } }
\* what the store holds when the node starts: nothing, or the config and the
\* curve an earlier run left, which may be of a release that stored the
\* broken schema or set the reset flag (lines 1150-1155)
StoredAtStart ==
    { [ config |-> None, bid_ask |-> NewBidAsk(<<>>, <<>>, Rat(300, 1)) ] }
    \cup
    { [ config |-> Some(cfg), bid_ask |-> ba ] :
        cfg \in { [StoredConfig(0, 0, 0) EXCEPT !.ask_bid_code_reset = flag] :
                    flag \in {None, Some(TRUE), Some(FALSE)} },
        ba \in {NewBidAsk(<<>>, <<>>, Rat(300, 1))} \cup StoredCurves }
    \cup
    { [ config |-> Some(BrokenConfig(cfg)), bid_ask |-> ba ] :
        cfg \in { StoredConfig(1, 2, 3),
                  [StoredConfig(1, 2, 3) EXCEPT !.ask_bid_code_reset = Some(TRUE)] },
        ba \in BidAskBroken }

\* a node of any network and any number of seeds starts on any such store;
\* when the store holds a config, a BTC deposit to its address may be waiting
\* that is old enough to be fulfilled
InitTick ==
    /\ InitRelay /\ InitDispatch /\ InitWallet
    /\ ledger = <<>>
    /\ now = MaxNowSecs
    /\ watcher = IdleWatcher
    /\ \E seeds \in 0..MaxSeeds, is_local_debug \in BOOLEAN :
          node_config = NodeConfig(seeds, is_local_debug)
    /\ \E st \in StoredAtStart : config = st.config /\ bid_ask = st.bid_ask
    /\ \E waiting \in BOOLEAN :
          events = [e \in EventIds |->
                      IF e = 1 /\ waiting /\ config # None
                      THEN Some([kind |-> "deposit", time |-> TickSecs])
                      ELSE None]
    /\ curve_op = NoCurveOp
    /\ curve_changes = 0

\* the ticks of a watcher no further external event reaches
NextTick ==
    \/ IntervalFold
    \/ SendAskFulfillmentTransaction
    \/ FulfillBtcBidsCall
    \/ WriteConfig

SpecTick == InitTick /\ [][NextTick]_vars

\* a node that knows any of the peers
InitDiscovery ==
    /\ InitRelay /\ InitWallet /\ InitWatcher /\ InitCurve
    /\ handlers = <<>>
    /\ rxLoop = "running"
    /\ peer_store \in SUBSET Nodes
    /\ last_seen = {}
    /\ about_tasks = <<>>
    /\ discovery = NoDiscovery
    /\ observation = NoObservations

\* the observation handler beside the transaction processors
NextObservation ==
    \/ GossipObservation
    \/ ProcessMessage
    \/ \E h \in DOMAIN observation.handlers : InsertObservationAndEdges(h)
    \/ \E h \in TxHashes : TransactionProcessor(h)

SpecObservation == Init /\ [][NextObservation]_vars

NextDiscovery ==
    \/ DiscoveryIntervalFold
    \/ DiscoveryRecvForEach

SpecDiscovery == InitDiscovery /\ [][NextDiscovery]_vars

(***************************************************************************)
(* Claims about send_message_sync and broadcast                            *)
(***************************************************************************)
SendCalls == {c \in DOMAIN calls : calls[c].kind = "send"}
\* what was asked for: the caller's timeout, or the documented default
ConfiguredSecs(call) == UnwrapOr(call.asked, DefaultTimeoutSecs)
\* the PeerMessages ever queued that carry the reply channel of call c
Enqueued(c) == {k \in 1..Len(txLog) : txLog[k].response = calls[c].chan}
SentTo(c) == chans[Get(calls[c].chan)].sent
\* exactly one PeerMessage, with the call's request, key and reply channel
OneEnqueued(c) ==
    /\ Cardinality(Enqueued(c)) = 1
    /\ \A k \in Enqueued(c) :
          /\ txLog[k].request = calls[c].request
          /\ txLog[k].public_key = Some(calls[c].node)
\* the reply channel is the call's own, and the call returns the Response
\* that was sent on it
OwnReply(c) ==
    /\ \A d \in SendCalls \ {c} : calls[d].chan # calls[c].chan
    /\ (calls[c].pc = "done" /\ SentTo(c) # <<>>) =>
          calls[c].result = Ok(SentTo(c)[1])
    /\ calls[c].result.ok => (SentTo(c) # <<>> /\ calls[c].result = Ok(SentTo(c)[1]))

\* C4 as stated: for every send_message_sync call exactly one PeerMessage
\* with a fresh private reply channel is enqueued on the outbound queue, and
\* the caller returns exactly the Response sent on its own reply channel.
C4_EveryCallEnqueues ==
    \A c \in SendCalls : OneEnqueued(c) /\ OwnReply(c)

\* C4 amended: for every send_message_sync call whose destination key converts,
\* exactly one PeerMessage with a fresh private reply channel is enqueued,
\* and the caller returns exactly the Response sent on its own channel; a
\* call whose key does not convert returns the conversion error and enqueues
\* nothing.
C4_ValidKeyEnqueuesOnce ==
    /\ \A c \in SendCalls :
          IF ToPublicKey(calls[c].node).ok
          THEN OneEnqueued(c) /\ OwnReply(c)
          ELSE /\ Enqueued(c) = {}
               /\ calls[c].pc = "done"
               /\ calls[c].result = Err("key")
    /\ Len(txLog) = Cardinality({c \in SendCalls : ToPublicKey(calls[c].node).ok})

\* two concurrent callers, each returned the Response of its own peer
C4_Witness ==
    \E c, d \in SendCalls :
        /\ c # d
        /\ calls[c].pc = "done" /\ calls[d].pc = "done"
        /\ calls[c].result.ok /\ calls[d].result.ok
        /\ calls[c].result # calls[d].result
        /\ Len(txLog) = 2

\* C5 as stated: if no Response is ever sent on the reply channel the call
\* returns a Timeout-kind error, not earlier than the configured duration.
C5_SilenceMeansTimeout ==
    \A c \in SendCalls :
        (calls[c].pc = "done" /\ SentTo(c) = <<>> /\ Enqueued(c) # {}) =>
            /\ calls[c].result = Err("timeout")
            /\ calls[c].elapsed >= ConfiguredSecs(calls[c])

\* C5 amended: a call whose key converts and on whose reply channel no
\* Response is sent returns a Timeout error, not earlier than the configured
\* duration, while the reply sender is alive, and returns a receive error
\* (possibly earlier) once the reply sender was dropped; an awaiting call
\* can always return once the configured duration has elapsed.
C5_TimeoutOrDisconnect ==
    \A c \in SendCalls :
        /\ (calls[c].pc = "done" /\ SentTo(c) = <<>> /\ ToPublicKey(calls[c].node).ok) =>
              \/ /\ calls[c].result = Err("timeout")
                 /\ calls[c].elapsed >= ConfiguredSecs(calls[c])
              \/ /\ calls[c].result = Err("recv")
                 /\ ~chans[Get(calls[c].chan)].tx
        /\ calls[c].result = Err("timeout") =>
              (SentTo(c) = <<>> /\ calls[c].elapsed >= ConfiguredSecs(calls[c]))
        /\ (calls[c].pc = "await" /\ calls[c].elapsed >= ConfiguredSecs(calls[c])) =>
              ENABLED SendMessageSyncReturn(c)
        /\ calls[c].pc = "await" =>
              calls[c].elapsed < ConfiguredSecs(calls[c]) + TickSecs

\* a call with the default timeout timed out after the transport kept silent
C5_Witness ==
    \E c \in SendCalls :
        /\ calls[c].pc = "done"
        /\ calls[c].asked = None
        /\ calls[c].result = Err("timeout")
        /\ calls[c].elapsed >= DefaultTimeoutSecs

\* C7: broadcast over N nodes returns exactly N entries, entry i carrying the
\* public key of input node i and the outcome of node i's own request,
\* whatever the completion order and whatever happened to the other nodes.
C7_BroadcastEntries ==
    bcast.pc = "done" =>
        /\ Len(bcast.results) = Len(bcast.nodes)
        /\ \A i \in 1..Len(bcast.nodes) :
              /\ bcast.results[i][1] = bcast.nodes[i]
              /\ bcast.results[i][2] = calls[i].result
              /\ bcast.results[i][2].ok =>
                    Get(bcast.results[i][2].val).node_metadata = Some(bcast.nodes[i])
              /\ ~ToPublicKey(bcast.nodes[i]).ok =>
                    bcast.results[i][2] = Err("key")

\* two nodes, the second completed first and failed, the first succeeded
C7_Witness ==
    /\ bcast.pc = "done"
    /\ Len(bcast.nodes) = 2
    /\ bcast.order = <<2, 1>>
    /\ bcast.nodes[1] # bcast.nodes[2]
    /\ bcast.results[1][2].ok
    /\ ~bcast.results[2][2].ok

(***************************************************************************)
(* Claims about submit_transaction                                         *)
(***************************************************************************)
SubmitCalls == {c \in DOMAIN calls : calls[c].kind = "submit"}
FireAndForget(c) == ~calls[c].request.sync_query_response
\* the TransactionMessages ever queued for transaction t without reply channel
QueuedPlain(t) ==
    {k \in 1..Len(tmLog) : tmLog[k] = [transaction |-> t, response_channel |-> None]}

\* C6 as stated: a synchronous submit_transaction call terminates with a
\* response or an error within an explicit timeout, even when the processor
\* keeps the reply channel open and never replies: once the longest timeout of
\* the relay has elapsed the awaiting call can return.
C6_SyncSubmitBounded ==
    \A c \in SubmitCalls :
        (calls[c].pc = "await" /\ calls[c].elapsed >= DefaultTimeoutSecs) =>
            ENABLED SubmitTransactionReturn(c)

\* C10: a fire-and-forget submit_transaction enqueues exactly one
\* TransactionMessage with no reply channel and has returned, without waiting,
\* a response holding the transaction hash and the echoed transaction; a
\* request with no transaction returns an error and enqueues nothing.
C10_FireAndForget ==
    /\ \A c \in SubmitCalls :
          FireAndForget(c) =>
             /\ calls[c].pc = "done"
             /\ calls[c].elapsed = 0
             /\ IF calls[c].request.transaction = None
                THEN ~calls[c].result.ok
                ELSE LET t == Get(calls[c].request.transaction)
                     IN  /\ calls[c].result =
                               Ok([ transaction_hash |-> Some(TxHash(t)),
                                    query_transaction_response |-> None,
                                    transaction |-> Some(t) ])
                         /\ QueuedPlain(t) # {}
    /\ \A c \in SubmitCalls :
          calls[c].request.transaction = None => ~calls[c].result.ok
    /\ \A t \in Txs :
          Cardinality(QueuedPlain(t)) =
             Cardinality({c \in SubmitCalls :
                             FireAndForget(c) /\ calls[c].request.transaction = Some(t)})
    /\ Len(tmLog) =
          Cardinality({c \in SubmitCalls : calls[c].request.transaction # None})

\* a fire-and-forget call returned while its message is still on the queue,
\* and another fire-and-forget call without a transaction was rejected
C10_Witness ==
    \E c, d \in SubmitCalls :
        /\ FireAndForget(c) /\ FireAndForget(d)
        /\ calls[c].result.ok
        /\ calls[c].request.transaction # None
        /\ calls[d].request.transaction = None
        /\ ~calls[d].result.ok
        /\ Len(transaction) = 1
        /\ Len(tmLog) = 1

(***************************************************************************)
(* Claims about receive_message_sync and the dispatcher                    *)
(***************************************************************************)
ReceiveCalls == {c \in DOMAIN calls : calls[c].kind = "receive"}
\* the PeerMessages ever queued inbound that carry the reply channel of call c
InboundOf(c) == {k \in 1..Len(rxLog) : rxLog[k].response = calls[c].chan}
\* the handlers whose request_response has returned and that carry a reply
\* channel
Answering == {h \in DOMAIN handlers :
                 handlers[h].response # None /\ IsSome(handlers[h].pm.response)}
ReplyChan(h) == chans[Get(handlers[h].pm.response)]
\* a Response that holds the error and nothing else of the request
ErrorOnly(response, e) ==
    /\ response.error = Some(e)
    /\ response.hash_search_response = None
    /\ response.submit_transaction_response = None
    /\ response.get_peers_info_response = None
    /\ response.download_response = None
    /\ response.about_node_response = None

\* C3 as stated: a Request with both the submit-transaction and the
\* get-peers-info fields populated produces a Response in which both
\* sub-responses are populated, whether or not the other field's handler
\* succeeded.
C3_FieldIndependence ==
    \A h \in Answering :
        LET request == handlers[h].pm.request
            response == Get(handlers[h].response)
        IN  (/\ handlers[h].reply = "sent"
             /\ IsSome(request.submit_transaction_request)
             /\ IsSome(request.get_peers_info_request)) =>
               /\ response.submit_transaction_response # None
               /\ response.get_peers_info_response # None

\* C8 as stated: for any inbound PeerMessage that carries a reply channel,
\* when a sub-handler returns an error exactly one Response is still sent on
\* the reply channel and its error field is populated.
C8_ErrorAlwaysAnswered ==
    \A h \in Answering :
        ~handlers[h].outcome.ok =>
            /\ Len(ReplyChan(h).sent) = 1
            /\ IsSome(ReplyChan(h).sent[1].error)

\* C8 amended: when a sub-handler returns an error, the dispatcher builds one
\* Response whose error field holds that error and sends it once on the reply
\* channel; it is delivered, as the only Response on that channel, unless
\* the caller has already returned and dropped its receiver, in which case
\* nothing is sent.
C8_ErrorAnsweredWhileOpen ==
    /\ \A h \in Answering :
          LET hr == handlers[h]
              response == Get(hr.response)
          IN  /\ hr.reply \in {"sent", "closed"}
              /\ hr.reply = "sent" => ReplyChan(h).sent = <<response>>
              /\ hr.reply = "closed" =>
                    /\ ReplyChan(h).sent = <<>>
                    /\ \E c \in ReceiveCalls :
                          /\ calls[c].chan = hr.pm.response
                          /\ calls[c].pc = "done"
              /\ ~hr.outcome.ok => ErrorOnly(response, hr.outcome.err)
              /\ hr.outcome.ok => response.error = None
    /\ \A h \in DOMAIN handlers :
          (IsSome(handlers[h].pm.response) /\ h \notin Answering) =>
              ReplyChan(h).sent = <<>>

\* the submit of a request failed, the Response carrying the error was sent
\* and the caller returned it
C8_Witness ==
    \E h \in Answering, c \in ReceiveCalls :
        /\ ~handlers[h].outcome.ok
        /\ handlers[h].reply = "sent"
        /\ calls[c].chan = handlers[h].pm.response
        /\ calls[c].pc = "done"
        /\ calls[c].result = Ok(Get(handlers[h].response))
        /\ IsSome(Get(calls[c].result.val).error)

\* C9: receive_message_sync verifies the request's proof of origin before
\* anything else: when verification fails the call has returned an error, no
\* reply channel was made and no PeerMessage was enqueued on the inbound
\* queue; every PeerMessage on the inbound queue comes from a verified call.
C9_VerifyBeforeEnqueue ==
    /\ \A c \in ReceiveCalls :
          IF VerifyAuth(calls[c].request).ok
          THEN /\ Cardinality(InboundOf(c)) = 1
               /\ \A k \in InboundOf(c) :
                     /\ rxLog[k].request = calls[c].request
                     /\ rxLog[k].public_key = VerifyAuth(calls[c].request).val
          ELSE /\ calls[c].pc = "done"
               /\ ~calls[c].result.ok
               /\ calls[c].chan = None
               /\ calls[c].elapsed = 0
    /\ \A k \in 1..Len(rxLog) : VerifyAuth(rxLog[k].request).ok
    /\ Len(rxLog) = Cardinality({c \in ReceiveCalls : VerifyAuth(calls[c].request).ok})

\* a request whose proof does not verify was rejected with nothing enqueued
C9_Witness ==
    \E c \in ReceiveCalls :
        /\ calls[c].request.proof # None
        /\ ~Get(calls[c].request.proof).valid
        /\ calls[c].pc = "done"
        /\ calls[c].result = Err("invalid proof")
        /\ rxLog = <<>>
        /\ peer_message_rx = <<>>

\* the handlers that carry a reply channel and got past the send of lines
\* 61-63: at, in or after the bookkeeping of lines 68-115
PastReply == {h \in DOMAIN handlers :
                 /\ IsSome(handlers[h].pm.response)
                 /\ \/ handlers[h].pc \in {"replied", "done"}
                    \/ handlers[h].pc \in {"failed", "cancelled"}
                       /\ handlers[h].reply # "closed"
                       /\ handlers[h].response # None}
\* handler h takes the bookkeeping step, which ends well or with the error of
\* the peer-store lookup
Bookkeeping(h) ==
    /\ h \in DOMAIN handlers
    /\ handlers[h].pc = "replied"
    /\ handlers'[h].pc \in {"done", "failed"}

\* C33: for every inbound PeerMessage that carries a reply channel the
\* Response is sent on the reply channel before the peer-store lookup, the
\* about-node query and the last-seen update start, and the Response
\* delivered is the same whether those steps succeed, fail or never
\* complete: it is the one built from the result of request_response, the
\* only one on the channel, and the bookkeeping step leaves the channel as
\* it found it.
C33_ReplyBeforeBookkeeping ==
    /\ [](\A h \in PastReply :
             /\ handlers[h].reply = "sent"
             /\ handlers[h].response = Some(BuildResponse(handlers[h].outcome))
             /\ ReplyChan(h).sent = <<Get(handlers[h].response)>>)
    /\ [][ /\ \A h \in DOMAIN handlers :
                (Bookkeeping(h) /\ IsSome(handlers[h].pm.response)) =>
                    /\ handlers[h].reply = "sent"
                    /\ chans'[Get(handlers[h].pm.response)] = ReplyChan(h)
                    /\ handlers'[h].response = handlers[h].response
           /\ (last_seen' # last_seen \/ Len(about_tasks') > Len(about_tasks)) =>
                \E h \in DOMAIN handlers :
                    Bookkeeping(h) /\ handlers[h].reply \in {"sent", "none"}
         ]_vars

\* the peer-store lookup after a reply failed and the caller still returned
\* the Response of the request, while another run of the bookkeeping recorded
\* nothing less
C33_Witness ==
    \E h \in PastReply, c \in ReceiveCalls :
        /\ handlers[h].pc = "failed"
        /\ handlers[h].outcome.ok
        /\ calls[c].chan = handlers[h].pm.response
        /\ calls[c].pc = "done"
        /\ calls[c].result = Ok(Get(handlers[h].response))

\* the PeerMessage of call c waits in the inbound queue, its caller still
\* listening, after the handling of another PeerMessage ended in failure
QueuedAfterFailure(c) ==
    /\ calls[c].kind = "receive"
    /\ calls[c].pc = "await"
    /\ \E k \in 1..Len(peer_message_rx) : peer_message_rx[k].response = calls[c].chan
    /\ \E h \in DOMAIN handlers : handlers[h].pc = "failed"

\* a Response was sent on the reply channel of call c
ResponseSentTo(c) ==
    /\ IsSome(calls[c].chan)
    /\ Get(calls[c].chan) \in DOMAIN chans
    /\ chans[Get(calls[c].chan)].sent # <<>>

\* C34 as stated: after the handling of a PeerMessage ended in failure the
\* dispatcher loop keeps consuming the inbound queue, and every later
\* PeerMessage with a reply channel eventually has a Response sent on it.
C34_LaterMessagesAnswered ==
    \A c \in CallIds :
        QueuedAfterFailure(c) ~> ResponseSentTo(c)

(***************************************************************************)
(* Claims about the deposit watcher                                        *)
(***************************************************************************)
\* how many outputs of the transactions txs pay event e
TimesPaid(txs, e) ==
    Cardinality({p \in (1..Len(txs)) \X (1..2 * NumEvents) :
                    p[2] <= Len(txs[p[1]]) /\ txs[p[1]][p[2]] = e})
InProgress(f) == fulfill[f].pc \in {"built", "signing"}

C2_NoInterleaving ==
    \A f, g \in FulfillIds : (f # g /\ InProgress(f)) => ~InProgress(g)

\* C37 as stated: fulfill_btc_bids hands the transaction to the network only
\* after a signature was affixed for every input of the pending transaction
\* and the finalize step of the wallet reported it fully signed; when a
\* signing round fails or the finalize step reports not fully signed,
\* nothing is broadcast and an error is returned.
C37_BroadcastOnlyFinalized ==
    \A f \in FulfillIds :
        /\ fulfill[f].broadcast # None =>
              /\ Get(fulfill[f].broadcast)
              /\ fulfill[f].i > Len(fulfill[f].hashes)
        /\ fulfill[f].result = Err("keysign") =>
              /\ fulfill[f].broadcast = None
              /\ \A k \in 1..Len(btc_chain) : btc_chain[k].sent_by # f

(***************************************************************************)
(* Claims about the curve engine                                           *)
(***************************************************************************)
AfterFulfill == curve_op.op = "fulfill_taker_order"
Fulfilled == AfterFulfill /\ IsSome(curve_op.result)
\* the ladder the order was walked on, as it was before the call
SideBefore == TakerSide(curve_op.before, curve_op.args.is_ask)
\* what the walk took off the ladder
Consumed == SumVolume(SideBefore) - SumVolume(curve_op.walked)

\* C11: after a successful fulfill_taker_order every step holds no more than
\* it held before the call (updated_curve is the walked ladder without its
\* emptied steps), and the volumes of updated_curve add up to the volumes
\* before the call less fulfilled_amount, which is a strict decrease.
C11_VolumesOnlyDecrease ==
    Fulfilled =>
        LET r == Get(curve_op.result)
            pre == SideBefore
            w == curve_op.walked
        IN  /\ Len(w) = Len(pre)
            /\ \A i \in 1..Len(pre) :
                  /\ w[i].price = pre[i].price
                  /\ w[i].volume <= pre[i].volume
            /\ r.updated_curve = RetainNonEmpty(w)
            /\ SumVolume(r.updated_curve) = SumVolume(pre) - r.fulfilled_amount
            /\ SumVolume(r.updated_curve) < SumVolume(pre)

\* a fulfillment that emptied a step and took a part of the next one
C11_Witness ==
    /\ Fulfilled
    /\ \E i \in 1..Len(SideBefore) :
          /\ 0 < curve_op.walked[i].volume
          /\ curve_op.walked[i].volume < SideBefore[i].volume
    /\ 0 < Len(Get(curve_op.result).updated_curve)
    /\ Len(Get(curve_op.result).updated_curve) < Len(SideBefore)

\* C12: fulfill_taker_order returns None whenever the walk took less than
\* DUST_LIMIT off the ladder, and every fulfillment it returns has
\* fulfilled_amount >= DUST_LIMIT.
C12_DustOrdersRejected ==
    AfterFulfill =>
        /\ Consumed < DUST_LIMIT => curve_op.result = None
        /\ IsSome(curve_op.result) =>
              /\ Get(curve_op.result).fulfilled_amount >= DUST_LIMIT
              /\ Get(curve_op.result).fulfilled_amount = Consumed

\* an order that would have been filled with less than the dust limit
C12_Witness ==
    /\ AfterFulfill
    /\ 0 < Consumed
    /\ Consumed < DUST_LIMIT
    /\ curve_op.result = None

\* the call of the scenario: 20_000 as an ask order on a ladder whose first
\* step is 30_000 at 0.0035
FirstStepScenario ==
    /\ AfterFulfill
    /\ curve_op.args.order_amount = 20000
    /\ curve_op.args.is_ask
    /\ Len(curve_op.before.asks) >= 1
    /\ curve_op.before.asks[1] = PriceVolume(Rat(35, 10000), 30000)

\* C13 as stated: the order is taken from the first step only, which is not
\* exhausted, and every later step keeps its volume.
C13_FirstStepOnly ==
    FirstStepScenario =>
        /\ curve_op.walked[1].volume > 0
        /\ \A i \in 2..Len(curve_op.walked) :
              curve_op.walked[i].volume = curve_op.before.asks[i].volume

\* C13 amended: the order converts to 5_714_285 at the price 0.0035, more than
\* the 30_000 of the first step, so the first step is exhausted and absent
\* from updated_curve, fulfilled_amount is at least 30_000, and the walk goes
\* on to the second step with 19_895 of the order left.
C13_FirstStepExhausted ==
    FirstStepScenario =>
        LET pre == curve_op.before.asks
            w == curve_op.walked
        IN  /\ w[1].volume = 0
            /\ IsSome(curve_op.result)
            /\ Get(curve_op.result).fulfilled_amount >= 30000
            /\ Len(Get(curve_op.result).updated_curve) < Len(pre)
            /\ Len(pre) >= 2 =>
                  LET asked == (19895 * pre[2].price.d) \div pre[2].price.n
                  IN  w[2].volume = IF asked >= pre[2].volume
                                    THEN 0 ELSE pre[2].volume - asked

\* the scenario on a ladder whose second step is only partly taken
C13_Witness ==
    /\ FirstStepScenario
    /\ Len(curve_op.walked) >= 2
    /\ 0 < curve_op.walked[2].volume
    /\ curve_op.walked[2].volume < curve_op.before.asks[2].volume

AfterLadder == curve_op.op = "price_volume_generate"

\* C14 as stated: for an available_volume of at least DUST_LIMIT the returned
\* volumes add up to available_volume, or to
\* floor(available_volume / DUST_LIMIT) * DUST_LIMIT.
C14_SumIsAvailable ==
    ( /\ AfterLadder
      /\ curve_op.args.available_volume >= DUST_LIMIT
      /\ curve_op.args.price_width.n > 0 ) =>
        \/ SumVolume(curve_op.result) = curve_op.args.available_volume
        \/ SumVolume(curve_op.result)
             = (curve_op.args.available_volume \div DUST_LIMIT) * DUST_LIMIT

\* C15 as stated: regenerate keeps the total bid volume and the total ask
\* volume of the curve.
C15_RegenerateKeepsTotals ==
    curve_op.op = "regenerate" =>
        /\ SumBidVolume(bid_ask) = SumBidVolume(curve_op.before)
        /\ SumAskVolume(bid_ask) = SumAskVolume(curve_op.before)

\* C16: PriceVolume::generate returns an empty ladder for every
\* available_volume below DUST_LIMIT, whatever the other parameters.
C16_BelowDustIsEmpty ==
    ( AfterLadder /\ curve_op.args.available_volume < DUST_LIMIT ) =>
        curve_op.result = <<>>

\* a call with a positive volume below the dust limit
C16_Witness ==
    /\ AfterLadder
    /\ 0 < curve_op.args.available_volume
    /\ curve_op.args.available_volume < DUST_LIMIT
    /\ curve_op.args.divisions = DefaultDivisions

\* C24 as stated: when a step is below DUST_LIMIT after the normalisation,
\* PriceVolume::generate returns floor(available_volume / DUST_LIMIT) steps,
\* each of volume DUST_LIMIT, with the prices of the leading steps.
C24_FlattenedLadder ==
    LET a == curve_op.args
        raw == RawVolumes(a.available_volume, a.center_price, a.divisions,
                          a.price_width, a.scale)
        normalized == NormalizeVolumesNoDust(a.available_volume, raw)
    IN  ( /\ AfterLadder
          /\ a.available_volume >= DUST_LIMIT
          /\ \E i \in 1..Len(normalized) : normalized[i].volume < DUST_LIMIT ) =>
            /\ Len(curve_op.result) = a.available_volume \div DUST_LIMIT
            /\ \A i \in 1..Len(curve_op.result) :
                  /\ curve_op.result[i].volume = DUST_LIMIT
                  /\ curve_op.result[i].price = raw[i].price

\* PriceVolume::generate was called with scale > 1 and no step was below
\* DUST_LIMIT after the normalisation, so the ladder was not flattened
Geometric ==
    LET a == curve_op.args
        raw == RawVolumes(a.available_volume, a.center_price, a.divisions,
                          a.price_width, a.scale)
        normalized == NormalizeVolumesNoDust(a.available_volume, raw)
    IN  /\ AfterLadder
        /\ a.available_volume >= DUST_LIMIT
        /\ RatLess(Rat(1, 1), a.scale)
        /\ \A i \in 1..Len(normalized) : normalized[i].volume >= DUST_LIMIT

\* C27 as stated: in a geometric ladder the volumes do not grow with the
\* distance from the center price: the closest step holds the largest volume
\* and the farthest the smallest.
C27_VolumesFallWithDistance ==
    Geometric =>
        \A i, j \in 1..Len(curve_op.result) :
            i < j => curve_op.result[i].volume >= curve_op.result[j].volume

\* C27, amended: in a geometric ladder the volumes do not fall with the
\* distance from the center price, but for the one unit the final adjustment
\* puts onto leading steps: the closest step holds the smallest volume and
\* the farthest the largest.
C27_VolumesGrowWithDistance ==
    Geometric =>
        \A i, j \in 1..Len(curve_op.result) :
            i < j => curve_op.result[i].volume <= curve_op.result[j].volume + 1

\* a geometric ladder of the default parameters whose farthest step holds
\* more than twice the closest one
C27_Witness ==
    /\ Geometric
    /\ curve_op.args.scale = DefaultScale
    /\ Len(curve_op.result) = DefaultDivisions
    /\ curve_op.result[DefaultDivisions].volume > 2 * curve_op.result[1].volume

\* the steps of the ladder before the call that updated_curve no longer has
StepsTaken == Len(SideBefore) - Len(Get(curve_op.result).updated_curve)

\* C25: fulfill_taker_order consumes the side front to back: updated_curve
\* is a suffix of the ladder before the call in its order, only its first
\* step may hold less than before, every step in front of it was taken
\* whole, and nothing behind the partially taken step was touched.
C25_FrontToBack ==
    Fulfilled =>
        LET r == Get(curve_op.result)
            pre == SideBefore
            u == r.updated_curve
            k == StepsTaken
        IN  /\ k >= 0
            /\ \A j \in 1..Len(u) : u[j].price = pre[k + j].price
            /\ \A j \in 2..Len(u) : u[j].volume = pre[k + j].volume
            /\ Len(u) > 0 =>
                  /\ 0 < u[1].volume
                  /\ u[1].volume <= pre[k + 1].volume
            /\ r.fulfilled_amount =
                  SumVolume(SubSeq(pre, 1, k))
                  + ( IF Len(u) > 0 THEN pre[k + 1].volume - u[1].volume ELSE 0 )

\* a fill that took a step whole, a part of the next one and left a third
C25_Witness ==
    /\ Fulfilled
    /\ StepsTaken >= 1
    /\ Len(Get(curve_op.result).updated_curve) >= 2
    /\ Get(curve_op.result).updated_curve[1].volume
           < SideBefore[StepsTaken + 1].volume

\* the ladders of the BidAsk and of the fulfillment last returned
CurveLadders ==
    {bid_ask.bids, bid_ask.asks}
        \cup ( IF Fulfilled THEN {Get(curve_op.result).updated_curve} ELSE {} )

BidScenario ==
    /\ curve_op.op = "generate"
    /\ curve_op.args = [ available_balance_rdg |-> 1000000,
                         pair_balance_btc |-> 50000,
                         last_exchange_price |-> Rat(300, 1),
                         divisions |-> 10, scale |-> Rat(5, 1),
                         min_ask |-> Rat(1, 1000) ]

\* C17 as stated: the bid ladder of the scenario is not empty and every bid
\* price lies within [30.0, 300.0].
C17_BidsBelowCenter ==
    BidScenario =>
        /\ bid_ask.bids # <<>>
        /\ \A i \in 1..Len(bid_ask.bids) :
              /\ RatLeq(Rat(30, 1), bid_ask.bids[i].price)
              /\ RatLeq(bid_ask.bids[i].price, Rat(300, 1))

\* C17 amended: the bid ladder of the scenario is not empty and every bid
\* price lies within [327.0, 570.0], step i at 300 + 27 * i: the bids extend
\* above the center price (in RDG/BTC) and never below it.
C17_BidsAboveCenter ==
    BidScenario =>
        /\ bid_ask.bids # <<>>
        /\ \A i \in 1..Len(bid_ask.bids) :
              /\ bid_ask.bids[i].price = Rat(300 + 27 * i, 1)
              /\ RatLeq(Rat(327, 1), bid_ask.bids[i].price)
              /\ RatLeq(bid_ask.bids[i].price, Rat(570, 1))

C17_Witness ==
    /\ BidScenario
    /\ Len(bid_ask.bids) = 10

\* C18: in every curve made by BidAsk::generate, generate_default or
\* regenerate with a positive last_exchange_price and min_ask, every ask
\* price is at least 1 / last_exchange_price and at least min_ask.
C18_AsksNotBelowMinimum ==
    curve_op.op \in {"generate", "regenerate"} =>
        \A i \in 1..Len(bid_ask.asks) :
            /\ RatLeq(curve_op.args.min_ask, bid_ask.asks[i].price)
            /\ RatLeq(RatInv(curve_op.args.last_exchange_price),
                      bid_ask.asks[i].price)

\* a regenerated curve with asks where min_ask is the higher of the two
C18_Witness ==
    /\ curve_op.op = "regenerate"
    /\ bid_ask.asks # <<>>
    /\ RatLess(RatInv(curve_op.args.last_exchange_price), curve_op.args.min_ask)

(***************************************************************************)
(* Claims about the ticks of the watcher                                   *)
(***************************************************************************)
\* C19 as stated: a tick that finds no stored config initiates the key
\* generation exactly when the node has at least the minimum number of seeds
\* (3 on a local or debug network, 4 otherwise); with fewer seeds it
\* initiates none and stores no config.
C19_KeygenIffEnoughSeeds ==
    ( watcher.pc = "idle" /\ watcher.no_config ) =>
        /\ watcher.keygen <=> node_config.seeds >= MinSeeds(node_config)
        /\ node_config.seeds < MinSeeds(node_config) =>
               ( config = None /\ watcher.writes = 0 )

\* C20 as stated: a tick calls the store for deposit_watcher_config at most
\* once, and exactly once when its process_requests_new returned Ok, also
\* when it reset the curve or stored a broken record again.
C20_WrittenOncePerTick ==
    watcher.pc = "idle" =>
        /\ watcher.writes <= 1
        /\ watcher.processed => watcher.writes = 1

\* the ladder is the legacy ladder without the entries that lack a price or
\* a volume: an increasing map of its steps onto the complete legacy entries
LegacyComplete(legacy, ladder) ==
    LET complete == {i \in 1..Len(legacy) :
                       legacy[i].price # None /\ legacy[i].volume # None}
    IN  /\ Len(ladder) = Cardinality(complete)
        /\ \A k \in 1..Len(ladder) :
              \E i \in complete :
                 /\ Cardinality({j \in complete : j < i}) = k - 1
                 /\ ladder[k].price = legacy[i].price[1]
                 /\ ladder[k].volume = legacy[i].volume[1]

\* the events with an output in the transaction of a tick
OutputsOf(outputs) == {outputs[k] : k \in 1..Len(outputs)}

\* C29: when a steady-state tick has made the outputs of its two
\* transactions, every order with an output in the RDG transaction or in the
\* BTC transaction is of an event more than 30 seconds before the current
\* time, and no order has an output in both.
C29_SettlementDelay ==
    [][ ( watcher.pc = "idle" /\ watcher'.pc = "rdg" ) =>
          /\ \A e \in OutputsOf(watcher'.rdg_outputs)
                      \cup OutputsOf(watcher'.btc_outputs) :
                /\ events[e] # None
                /\ now - Get(events[e]).time > CutoffSecs
          /\ OutputsOf(watcher'.rdg_outputs)
                 \cap OutputsOf(watcher'.btc_outputs) = {}
      ]_vars

\* a tick that pays one order and leaves out a younger one of the same kind
C29_Witness ==
    /\ watcher.pc = "rdg"
    /\ \E e, y \in EventIds :
          /\ e \in OutputsOf(watcher.rdg_outputs) \cup OutputsOf(watcher.btc_outputs)
          /\ y \notin OutputsOf(watcher.rdg_outputs) \cup OutputsOf(watcher.btc_outputs)
          /\ events[y] # None
          /\ Get(events[y]).kind = Get(events[e]).kind
          /\ now - Get(events[y]).time <= CutoffSecs

\* the deposits the RDG transaction of the tick in progress has paid
PaidThisTick ==
    {e \in PaidBy(ledger) :
        \E k \in 1..Len(watcher.rdg_outputs) : watcher.rdg_outputs[k] = e}

\* C28: the stored last_btc_timestamp is a high-water mark: when a tick that
\* submitted the fulfillment of a BTC deposit of time t has written its
\* config, the stored last_btc_timestamp is at least t, and no step of the
\* watcher lowers the stored last_btc_timestamp.
C28_HighWaterMark ==
    [][ /\ ( watcher.pc = "write" /\ watcher'.pc = "idle" /\ watcher'.processed ) =>
              \A e \in PaidThisTick :
                  /\ IsSome(config')
                  /\ Get(config').last_btc_timestamp >= Get(events[e]).time
        /\ ( IsSome(config) /\ IsSome(config') ) =>
              Get(config').last_btc_timestamp >= Get(config).last_btc_timestamp
      ]_vars

\* C21 as stated: when a call made for the RDG transaction of a tick fails,
\* the tick still calls fulfill_btc_bids for the BTC outputs its orders hold
\* and still stores the config at its end.
C21_FailureAbandonsOneSide ==
    ( watcher.pc = "idle" /\ watcher.rdg_failed ) =>
        /\ watcher.processed
        /\ watcher.btc_due => watcher.btc_called

\* the tick that began at this step ran both rounds of the bootstrap and
\* both succeeded
BothRoundsSucceed ==
    /\ IsSome(watcher'.rounds)
    /\ Get(watcher'.rounds).keygen
    /\ Get(watcher'.rounds).keysign

SkipsForBalance ==
    /\ watcher.pc = "idle"
    /\ IsSome(watcher'.balance)
    /\ ( Get(watcher'.balance) = None \/ Get(Get(watcher'.balance)) <= 0 )

\* C38: once a deposit_watcher_config record exists no later tick initiates
\* a key generation, also when the record does not load in the current
\* schema, and every config stored afterwards has exactly one allocation,
\* whose key is the key of the allocation read: the custodial key is never
\* replaced.
C38_KeyNeverReplaced ==
    [][ config # None =>
          /\ config' # None
          /\ Get(config').allocations = 1
          /\ Get(config').key = Get(config).key
          /\ Get(config').allocation = Get(config).allocation
          /\ ~watcher'.keygen
          /\ watcher.pc = "idle" => watcher'.rounds = None
      ]_vars

\* the bootstrap stored the second key; a later tick processed the requests
\* and stored its config, with that key
C38_Witness ==
    /\ config # None
    /\ Get(config).key = "mp_key_2"
    /\ Get(config).allocations = 1
    /\ watcher.pc = "idle"
    /\ watcher.processed
    /\ watcher.writes = 1
    /\ ~watcher.keygen

\* C31 as stated: a steady-state tick that finds the ledger balance of the
\* custodial address absent or not positive makes no transaction on either
\* chain and leaves deposit_watcher_config unchanged.
C31_NoBalanceNoEffect ==
    [][ SkipsForBalance =>
          /\ watcher'.pc = "idle"
          /\ UNCHANGED <<ledger, btc_chain, wallet, fulfill>>
          /\ UNCHANGED <<config, bid_ask>>
      ]_vars

\* C31, amended: such a tick makes no transaction on either chain, and it
\* leaves deposit_watcher_config unchanged unless the record was of the
\* legacy schema, which fix_historical_errors has then stored again in the
\* current schema.
C31_NoBalanceOnlyMigration ==
    [][ SkipsForBalance =>
          /\ watcher'.pc = "idle"
          /\ UNCHANGED <<ledger, btc_chain, wallet, fulfill>>
          /\ IF Get(config).schema = "broken"
             THEN /\ watcher'.migrated
                  /\ watcher'.writes = 1
                  /\ config' # config => Get(config').schema = "current"
             ELSE /\ UNCHANGED <<config, bid_ask>>
                  /\ watcher'.writes = 0
      ]_vars

\* a tick found no balance while a deposit was waiting for its fulfillment
C31_Witness ==
    /\ watcher.pc = "idle"
    /\ watcher.balance \in {Some(None), Some(Some(0))}
    /\ PartyOrders # <<>>
    /\ Get(config).schema = "current"
    /\ ledger = <<>>

\* the stored config asks for the curve reset (line 1178)
FlagSet(cfg) ==
    /\ IsSome(cfg)
    /\ Get(cfg).schema = "current"
    /\ Get(cfg).ask_bid_code_reset = Some(TRUE)

\* C30: the curve reset is one-time: a tick that starts with
\* ask_bid_code_reset set either ends at once for want of a ledger balance
\* or regenerates the curve, and what it stores then is the regenerated curve
\* with the flag cleared; only a tick that starts with the flag set
\* regenerates, and no step of the watcher sets the flag.
C30_OneTimeReset ==
    [][ /\ ( watcher.pc = "idle" /\ FlagSet(config)
             /\ ~IsLocalDebug(node_config) /\ ~watcher'.reset ) =>
              /\ watcher'.pc = "idle"
              /\ watcher'.writes = 0
              /\ UNCHANGED <<config, bid_ask>>
        /\ ( watcher.pc = "idle" /\ watcher'.reset ) =>
              /\ FlagSet(config)
              /\ <<config, bid_ask>>' # <<config, bid_ask>> =>
                    /\ Get(config').ask_bid_code_reset = Some(FALSE)
                    /\ \E center_price \in StartingCenterPrices :
                          bid_ask' = Regenerate(bid_ask, center_price,
                                                RatInv(center_price))
        /\ ~FlagSet(config) => ~FlagSet(config')
      ]_vars

\* a tick has regenerated the curve and written its config, and the stored
\* flag is cleared
C30_Witness ==
    /\ watcher.pc = "idle"
    /\ watcher.reset
    /\ watcher.processed
    /\ watcher.writes = 2
    /\ IsSome(config)
    /\ Get(config).ask_bid_code_reset = Some(FALSE)

\* C22: a tick on a stored record of the legacy schema stores a record of
\* the current schema whose bids and asks are the legacy entries that have
\* a price and a volume, in their order, with the allocation unchanged; on
\* a record of the current schema, or on none, fix_historical_errors
\* writes nothing.
C22_MigrationKeepsCompleteEntries ==
    [][ watcher.pc = "idle" =>
          IF config # None /\ Get(config).schema = "broken"
                /\ ~IsLocalDebug(node_config)
          THEN /\ watcher'.migrated
               /\ config' # config =>
                    /\ Get(config').schema = "current"
                    /\ Get(config').balance_btc = Get(config).balance_btc
                    /\ Get(config').balance_rdg = Get(config).balance_rdg
                    /\ LegacyComplete(bid_ask.bids, bid_ask'.bids)
                    /\ LegacyComplete(bid_ask.asks, bid_ask'.asks)
          ELSE ~watcher'.migrated ]_vars

\* a legacy record with a complete entry after an incomplete one was stored
\* again in the current schema
C22_Witness ==
    /\ watcher.migrated
    /\ config # None /\ Get(config).schema = "current"
    /\ Len(bid_ask.bids) = 2
    /\ bid_ask.bids[1] # bid_ask.bids[2]

(***************************************************************************)
(* Claims about Discovery                                                  *)
(***************************************************************************)
\* C23 as stated: after a completed Discovery tick no peer whose request
\* failed in it is in the peer store, whatever the other peers answered.
C23_FailedPeersAbsent ==
    discovery.completed =>
        \A pk \in discovery.failed : pk \notin peer_store

\* C23, amended: after a completed Discovery tick a peer whose request
\* failed in it is in the peer store only if the answer of another peer
\* named it, in its peer list or as its own node transaction.
C23_FailedPeersAbsentUnlessNamed ==
    discovery.completed =>
        \A pk \in discovery.failed :
            pk \in peer_store => pk \in discovery.named

\* one peer failed and is gone, the other answered and named nobody
C23_Witness ==
    /\ discovery.completed
    /\ Len(discovery.peers) = 2
    /\ Cardinality(discovery.failed) = 1
    /\ discovery.named = {}
    /\ peer_store \cap discovery.failed = {}
    /\ peer_store # {}

ObservationHandlers == DOMAIN observation.handlers
\* the handler of observation id, once run has taken it
HandlerOf(id) ==
    { h \in ObservationHandlers : observation.handlers[h].o.id = id }

\* C36: for every observation the handler consumes, the waiting transaction
\* processors are notified before the observation is stored: the store
\* takes an observation only in the insert step of a handler that has been
\* through the notification, and that step sends nothing.  A send that
\* failed on a full or closed channel, or no processor waiting, never keeps
\* the observation from being stored: such a handler is at the insert, which
\* it can take, or past it, and only the error of the store or the end of
\* the loop on another handler's store error leaves an observation unstored.
C36_NotifyThenPersist ==
    /\ [](\A h \in ObservationHandlers :
             LET hr == observation.handlers[h]
             IN  /\ hr.pc \in {"insert", "done", "failed", "cancelled"}
                 /\ hr.pc = "insert" => ENABLED InsertObservationAndEdges(h)
                 /\ hr.pc = "done" <=> hr.o.id \in observation.store
                 /\ hr.pc = "failed" => hr.result = Err("insert_observation_and_edges")
                 /\ hr.pc = "cancelled" => observation.loop = "stopped")
    /\ [](\A id \in observation.store : HandlerOf(id) # {})
    /\ [][ \A id \in observation.store' \ observation.store :
               /\ \E h \in HandlerOf(id) : observation.handlers[h].pc = "insert"
               /\ observation.channels' = observation.channels
               /\ \A h \in ObservationHandlers :
                      /\ observation.handlers'[h].sent = observation.handlers[h].sent
                      /\ observation.handlers'[h].failed = observation.handlers[h].failed
         ]_vars

\* one observation found the channel of the processor full and another found
\* no processor waiting; both were stored
C36_Witness ==
    \E h, k \in ObservationHandlers :
        /\ observation.handlers[h].failed # {}
        /\ observation.handlers[h].pc = "done"
        /\ \E x \in observation.handlers[k].o.observed : x.hash_type = "Transaction"
        /\ observation.handlers[k].o.proofs_ok
        /\ observation.handlers[k].sent = {}
        /\ observation.handlers[k].failed = {}
        /\ observation.handlers[k].pc = "done"
        /\ observation.store = {1, 2}

(***************************************************************************)
(* Claims about the withdrawals of one tick                                *)
(***************************************************************************)
SumOutputs(outputs) == SumVolume([i \in DOMAIN outputs |-> [volume |-> outputs[i]]])

\* C39: in one get_rdg_withdrawals_bids call that handles several
\* withdrawal transactions not yet used, the BTC amounts of the returned
\* outputs sum to no more than the bid volume of the curve passed in, and the
\* bid volume of the returned updated_bidask is the bid volume passed in
\* minus that sum
C39_OutputsWithinBidVolume ==
    (curve_op.op = "get_rdg_withdrawals_bids" /\ curve_op.result.ok) =>
        LET w == Get(curve_op.result.val)
        IN  /\ SumOutputs(w.outputs) <= SumBidVolume(curve_op.before)
            /\ SumBidVolume(w.updated_bidask) =
                   SumBidVolume(curve_op.before) - SumOutputs(w.outputs)

====
